---- MODULE Spec2Model ----
(***************************************************************************)
(* Page-grouped extraction pipeline of the document-extraction web app:    *)
(* the browser client (ApiService, EventHandler, UIController) and the     *)
(* Express server's /extract-data-group and /extract-table-data handlers.  *)
(***************************************************************************)
EXTENDS Integers, Sequences, FiniteSets, TLC

(***************************************************************************)
(* Bounds of the model                                                     *)
(***************************************************************************)
MaxPages == 21            \* largest page count of a field-mode document
MaxTablePages == 2        \* largest page count of a table-mode document
MaxAccumulated == 1       \* a further run starts while at most this many pages are accumulated
MaxBackendPage == 1       \* largest pageNumber the backend may invent
MaxRespLen == 1           \* most page entries in one backend response
MaxIngestPage == 7        \* page numbers offered to the accumulator alone
MaxIngestLen == 2         \* pages per direct updateTableWithGroupData call
MaxCallPages == 11        \* largest document given to a direct ApiService call
MaxCallGroup == 2         \* largest groupIndex given to a direct ApiService call
MaxInvalid == 3           \* how far below 1 an invalid totalPages goes
MaxInvalidPage == 12      \* largest pageNumber given with an invalid totalPages
MaxMergeInputs == 2       \* most PDFs in one /merge-pdfs request
MaxDocPages == 2          \* most pages of one PDF given to the merge
MaxValidateLen == 2       \* most pages of an answer given to the validation alone
MaxPlanPages == 45        \* largest totalPages given to calculateGroupInfo
MaxCachePages == 11       \* pages of the largest document given to PDFHandler alone
MaxCacheGroup == 1        \* largest groupIndex given to PDFHandler.getPageGroup alone
MaxLoads == 3             \* PDFDocument.load calls followed on one PDFHandler
MaxSlicePages == 11       \* largest document given to the table endpoint alone
MaxSlices == 3            \* result objects followed on one PDFHandler
MaxRequests == 2          \* server requests whose PDFHandler calls overlap
MaxOverlapLoads == 2       \* PDFDocument.load calls followed while requests overlap
MaxOverlapSlices == 1      \* result objects followed while requests overlap
MaxTermPages == 21        \* pages of a document in the flows followed to their end

(***************************************************************************)
(* Program constants                                                       *)
(***************************************************************************)
PAGES_PER_GROUP == 10
MAX_RETRIES == 5
HEADER_RETRIES == 3
PAGE_RETRIES == 5

RETRY_DELAY == 15000
PAGE_RETRY_DELAY == 15000
HEADER_DELAY_UNIT == 3000

DEFAULT_HEADERS == <<"Date", "Description", "Amount", "Balance">>

(***************************************************************************)
(* Arithmetic of the JavaScript built-ins used by the grouping code        *)
(***************************************************************************)
MathCeilDiv(a, b) == (a + b - 1) \div b

MathFloorDiv(a, b) == a \div b

MathMin(a, b) == IF a < b THEN a ELSE b

(***************************************************************************)
(* ApiService.processGroups: the groupInfo built in one loop iteration     *)
(***************************************************************************)
TotalGroups(total) == MathCeilDiv(total, PAGES_PER_GROUP)

GroupEndPageOff(g, total) == MathMin(g * PAGES_PER_GROUP + PAGES_PER_GROUP - 1, total)

GroupEndPage(g, total) == MathMin(g * PAGES_PER_GROUP + PAGES_PER_GROUP, total)

GroupInfo(g, total) ==
    [groupIndex |-> g,
     startPage |-> g * PAGES_PER_GROUP + 1,
     endPage |-> GroupEndPage(g, total),
     totalPages |-> total,
     isLastGroup |-> (GroupEndPage(g, total) = total)]

(***************************************************************************)
(* ApiService.calculateGroupInfo                                           *)
(***************************************************************************)
calculateGroupInfoCeil(pageNumber, total) ==
    LET g == MathCeilDiv(pageNumber - 1, PAGES_PER_GROUP)
        s == g * PAGES_PER_GROUP + 1
        e == MathMin(s + PAGES_PER_GROUP - 1, total)
    IN [groupIndex |-> g, startPage |-> s, endPage |-> e,
        totalPages |-> total, isLastGroup |-> (e = total)]

calculateGroupInfo(pageNumber, total) ==
    LET g == MathFloorDiv(pageNumber - 1, PAGES_PER_GROUP)
        s == g * PAGES_PER_GROUP + 1
        e == MathMin(s + PAGES_PER_GROUP - 1, total)
    IN [groupIndex |-> g, startPage |-> s, endPage |-> e,
        totalPages |-> total, isLastGroup |-> (e = total)]

(***************************************************************************)
(* Array.prototype.sort with the comparator (a, b) => a.pageNumber -       *)
(* b.pageNumber: a stable sort, computed here by stable insertion.         *)
(***************************************************************************)
RECURSIVE InsertByPageNumber(_, _)
InsertByPageNumber(page, sorted) ==
    IF sorted = <<>> THEN <<page>>
    ELSE IF page.pageNumber < Head(sorted).pageNumber
         THEN <<page>> \o sorted
         ELSE <<Head(sorted)>> \o InsertByPageNumber(page, Tail(sorted))

RECURSIVE SortByPageNumber(_)
SortByPageNumber(pages) ==
    IF pages = <<>> THEN <<>>
    ELSE InsertByPageNumber(pages[Len(pages)],
                            SortByPageNumber(SubSeq(pages, 1, Len(pages) - 1)))

(***************************************************************************)
(* UIController.updateTableWithGroupData: push the group's pages, then     *)
(* sort the whole accumulated array by pageNumber.                         *)
(***************************************************************************)
PushWithoutSort(acc, groupPages) == acc \o groupPages

IngestPages(acc, groupPages) == SortByPageNumber(acc \o groupPages)

(***************************************************************************)
(* What the inference backend may answer to a group extraction prompt.     *)
(* kind "throws": generateContent rejects; "noJson": the text holds no     *)
(* {...}; "badJson": JSON.parse throws; "noPages": no pages array;         *)
(* "pages": an object with a pages array of the given entries.  A          *)
(* pageNumber of 0 stands for a falsy or missing pageNumber.               *)
(***************************************************************************)
RECURSIVE SeqsUpTo(_, _)
SeqsUpTo(S, n) ==
    IF n = 0 THEN {<<>>}
    ELSE LET shorter == SeqsUpTo(S, n - 1)
         IN shorter \cup {Append(s, x) : s \in {t \in shorter : Len(t) = n - 1}, x \in S}

PageEntries == [pageNumber : 0..MaxBackendPage, hasFields : BOOLEAN]

GroupResults ==
    {[kind |-> k, pages |-> <<>>] : k \in {"throws", "noJson", "badJson", "noPages"}}
    \cup {[kind |-> "pages", pages |-> s] : s \in SeqsUpTo(PageEntries, MaxRespLen)}

(***************************************************************************)
(* server.js /extract-data-group: parsing and validation of the answer     *)
(***************************************************************************)
GroupResultAccepted(result) ==
    /\ result.kind = "pages"
    /\ \A i \in 1..Len(result.pages) :
          /\ result.pages[i].pageNumber # 0
          /\ result.pages[i].hasFields

GroupResultError(result) ==
    IF result.kind = "throws" THEN "inference error"
    ELSE "Failed to parse extracted data from AI response"

(***************************************************************************)
(* Values that stand for "nothing"                                         *)
(***************************************************************************)
NoGroupInfo ==
    [groupIndex |-> -1, startPage |-> 0, endPage |-> 0,
     totalPages |-> 0, isLastGroup |-> FALSE]

NoRequest == [endpoint |-> "none", groupInfo |-> NoGroupInfo, valid |-> FALSE, pdfs |-> <<>>]

(***************************************************************************)
(* The fetch an ApiService method sends: the endpoint and the JSON body.   *)
(* valid: the body carries every field the endpoint's input check looks    *)
(* for; pdfs: the array sent to /merge-pdfs.                               *)
(***************************************************************************)
Request(endpoint, gi) == [endpoint |-> endpoint, groupInfo |-> gi, valid |-> TRUE, pdfs |-> <<>>]

(***************************************************************************)
(* A PDF as the handlers see it: "pdf" with its pages, "garbage" (bytes    *)
(* PDFDocument.load rejects), "empty" (the empty string), "none".          *)
(***************************************************************************)
NoDoc == [kind |-> "none", pages |-> <<>>]

NoResponse == [status |-> 0, body |-> "none", success |-> FALSE, pages |-> <<>>, error |-> "",
               mergedPDF |-> NoDoc, pageCount |-> 0, fields |-> <<>>]

(***************************************************************************)
(* res.status(s).json({success: false, error}) and res.json({success:      *)
(* true, ...}) of server.js                                                *)
(***************************************************************************)
ErrorResponse(s, text) == [NoResponse EXCEPT !.status = s, !.body = "json", !.error = text]

SuccessResponse == [NoResponse EXCEPT !.status = 200, !.body = "json", !.success = TRUE]

(***************************************************************************)
(* No PDFHandler method has been called yet.                               *)
(***************************************************************************)
NoCall == [fn |-> "none", base64 |-> <<>>, groupIndex |-> 0, outcome |-> "none", id |-> 0,
           loaded |-> FALSE, sliced |-> FALSE]

(***************************************************************************)
(* Server requests that may overlap, and a request with no PDFHandler call *)
(* suspended.                                                              *)
(***************************************************************************)
Requests == 1..MaxRequests

NoPending == [fn |-> "none", phase |-> "idle", base64 |-> <<>>, groupIndex |-> 0,
              doc |-> [id |-> 0, base64 |-> <<>>, pageCount |-> 0], cleared |-> FALSE]

NoError == [text |-> "", group |-> 0, pageRange |-> <<>>, cause |-> "", lastError |-> ""]

(***************************************************************************)
(* State                                                                   *)
(***************************************************************************)
VARIABLES
    extractionMode,     \* EventHandler.state.extractionMode
    hasFile,            \* EventHandler.state.currentBase64 is set
    totalPages,         \* EventHandler.state.totalPages
    fieldsShown,        \* the field selection (analyze button) is displayed
    dropZoneShown,      \* the drop zone is displayed (the mode selection is hidden)
    isProcessing,       \* UIController.state.isProcessing
    runStatus,          \* "none" | "running" | "done" | "failed"
    pc,                 \* client flow: "idle" | "attempting" | "delaying"
    op,                 \* operation wrapped by retryOperation: "none" | "group" | "table" | ...
    operation,          \* the fetch made by the operation given to retryOperation
    groupIndex,         \* loop variable of processGroups
    attempt,            \* loop variable of retryOperation
    invocations,        \* calls of operation() made by the current retryOperation
    retryResult,        \* last retryOperation call: "none" | "pending" | "resolved" | "rejected"
    lastErrorKind,      \* "none" | "network" | "server"
    lastErrorText,      \* lastError.message
    yielded,            \* records yielded by processGroups in the current run
    accumulatedData,    \* UIController.state.accumulatedData.pages
    runPageCount,       \* number of pages ingested in the current run
    waits,              \* delays (ms) awaited so far by the current retryOperation call
    uiError,            \* message given to UIController.showError by the current flow
    request,            \* HTTP request sent by fetch, not yet taken by the server
    response,           \* HTTP response sent by the server, not yet read
    srvGroupInfo,       \* groupInfo of the group request the server is handling
    spc,                \* server handler: "idle" | "group" | "header" | "headerDelay"
                        \*   | "page" | "pageDelay" | "interPageDelay"
    inferenceInFlight,  \* units whose generateContent call is pending
    lastRequested,      \* highest unit of the current flow for which generateContent was called
    headerAttempt,      \* loop variable of the header retry loop
    headerFailures,     \* failed header attempts of the table request
    headers,            \* headers of the table request
    headersFrom,        \* "none" | "model" | "default"
    pageNum,            \* loop variable of the page loop
    pageAttempt,        \* loop variable of the per-page retry loop
    extractedData,      \* extractedData.pages of the table request
    srvWaits,           \* delays (ms) awaited so far by the current retry loop of the table request
    pageGroupCache,     \* pageGroupCache of the table request: groupIndex -> slice
    sliceFetches,       \* groupIndex of every getPageGroup call of the table request
    exhaustedPages,     \* pages of the table request whose 5 attempts all failed
    ingested,           \* page numbers handed to updateTableWithGroupData directly
    lastIngest,         \* pages of the last direct updateTableWithGroupData call
    calc,               \* last call of calculateGroupInfo and what it returned
    plan,               \* last call of processGroups alone and the groupInfo records it built
    validated,          \* last answer given to the group endpoint's validation, and its verdict
    documents,          \* PDFHandler.cache.documents: key -> document object
    pageGroups,         \* PDFHandler.cache.pageGroups: key -> result object
    loadCount,          \* calls of PDFDocument.load made by getDocument
    sliceCount,         \* result objects built by getPageGroup
    served,             \* objects returned by getDocument / getPageGroup since the last clearCache
    lastCall,           \* last call of a PDFHandler method and how it ended
    suspended             \* PDFHandler calls suspended at an await, one per request

clientVars == <<extractionMode, hasFile, totalPages, fieldsShown, dropZoneShown, isProcessing,
                runStatus, pc, op, operation, groupIndex, attempt, invocations, retryResult,
                lastErrorKind, lastErrorText, yielded, accumulatedData, runPageCount, uiError,
                waits>>

wireVars == <<request, response>>

serverVars == <<srvGroupInfo, spc, inferenceInFlight, headerAttempt, headerFailures, headers, headersFrom,
                pageNum, pageAttempt, extractedData, exhaustedPages, srvWaits, pageGroupCache,
                sliceFetches>>

cacheVars == <<documents, pageGroups, loadCount, sliceCount, served, lastCall, suspended>>

auxVars == <<ingested, lastIngest, calc, plan, validated, cacheVars>>

vars == <<clientVars, wireVars, serverVars, lastRequested, auxVars>>

NoCalc == [pageNumber |-> 0, totalPages |-> 0, info |-> NoGroupInfo, threw |-> FALSE]

NoValidation == [called |-> FALSE, result |-> [kind |-> "throws", pages |-> <<>>], accepted |-> FALSE]

NoPlan == [totalPages |-> 0, groups |-> <<>>, called |-> FALSE, threw |-> FALSE]

(***************************************************************************)
(* State after construction of UIController, ApiService, EventHandler and  *)
(* the start of the server.                                                *)
(***************************************************************************)
ClientConstructed ==
    /\ extractionMode = "field"
    /\ hasFile = FALSE
    /\ totalPages = 0
    /\ fieldsShown = FALSE
    /\ dropZoneShown = FALSE
    /\ isProcessing = FALSE
    /\ runStatus = "none"
    /\ pc = "idle"
    /\ op = "none"
    /\ operation = NoRequest
    /\ groupIndex = 0
    /\ attempt = 0
    /\ invocations = 0
    /\ retryResult = "none"
    /\ lastErrorKind = "none"
    /\ lastErrorText = ""
    /\ yielded = <<>>
    /\ accumulatedData = <<>>
    /\ runPageCount = 0
    /\ uiError = NoError
    /\ waits = <<>>

ServerStarted ==
    /\ srvGroupInfo = NoGroupInfo
    /\ spc = "idle"
    /\ inferenceInFlight = {}
    /\ lastRequested = -1
    /\ headerAttempt = 0
    /\ headerFailures = 0
    /\ headers = <<>>
    /\ headersFrom = "none"
    /\ pageNum = 0
    /\ pageAttempt = 0
    /\ extractedData = <<>>
    /\ exhaustedPages = {}
    /\ srvWaits = <<>>
    /\ pageGroupCache = <<>>
    /\ sliceFetches = <<>>

Init ==
    /\ ClientConstructed
    /\ ServerStarted
    /\ request = NoRequest
    /\ response = NoResponse
    /\ ingested = {}
    /\ lastIngest = <<>>
    /\ calc = NoCalc
    /\ plan = NoPlan
    /\ validated = NoValidation
    /\ documents = <<>>
    /\ pageGroups = <<>>
    /\ loadCount = 0
    /\ sliceCount = 0
    /\ served = {}
    /\ lastCall = NoCall
    /\ suspended = [s \in Requests |-> NoPending]

(***************************************************************************)
(* ApiService.retryOperation, loop condition attempt <= MAX_RETRIES: after *)
(* a failed attempt the loop runs again iff the attempt was not the last.  *)
(***************************************************************************)
RetryAgainOffByOne(att) == att + 1 < MAX_RETRIES

RetryAgain(att) == att < MAX_RETRIES

(***************************************************************************)
(* The message retryOperation rejects with (lines 44-46 and 58-67)         *)
(***************************************************************************)
RetryFailureCause(kind) ==
    IF kind = "network" THEN "Unable to connect to server" ELSE "All retry attempts failed"

(***************************************************************************)
(* EventHandler.startGroupProcessing, line 316: the message shown when a   *)
(* group record has success false.  It carries the 1-based group number    *)
(* and the retry wrapper's message, and no page range.                     *)
(***************************************************************************)
GroupFailureMessage(gi, kind, text) ==
    [text |-> "Failed to process group",
     group |-> gi.groupIndex + 1,
     pageRange |-> <<>>,
     cause |-> RetryFailureCause(kind),
     lastError |-> text]

TableFailureMessage ==
    [text |-> "Failed to extract tables",
     group |-> 0,
     pageRange |-> <<>>,
     cause |-> "ReferenceError",
     lastError |-> "pageCount is not defined"]

(***************************************************************************)
(* 'modeSelected' event (EventHandler.attachCustomEvents) raised by the    *)
(* Continue button of UIController.showModeSelection.                      *)
(***************************************************************************)
ModeSelected(m) ==
    /\ ~dropZoneShown
    /\ extractionMode' = m
    /\ dropZoneShown' = TRUE
    /\ UNCHANGED <<hasFile, totalPages, fieldsShown, isProcessing, runStatus,
                   pc, op, operation, groupIndex, attempt, invocations, retryResult, lastErrorKind,
                   lastErrorText, yielded, accumulatedData, runPageCount, uiError, waits>>
    /\ UNCHANGED <<wireVars, serverVars, lastRequested, auxVars>>

(***************************************************************************)
(* The first fetch of a retryOperation call                                *)
(***************************************************************************)
StartRetry(kind, fetch) ==
    /\ pc' = "attempting"
    /\ op' = kind
    /\ attempt' = 1
    /\ invocations' = 1
    /\ retryResult' = "pending"
    /\ waits' = <<>>
    /\ lastErrorKind' = "none"
    /\ lastErrorText' = ""
    /\ request' = fetch
    /\ operation' = fetch

StartRetryOperation(kind, gi) == StartRetry(kind, Request(kind, gi))

(***************************************************************************)
(* EventHandler.handleFiles for a document of n pages, taken as one step   *)
(* up to the start of the mode's extraction: resetState, conversion,       *)
(* merge, page count, then startFieldExtraction (field suggestions are     *)
(* shown, or fail) or startTableExtraction (up to the first table fetch).  *)
(* The locals of the server's finished requests and of the finished        *)
(* retryOperation call no longer exist and are set back.                   *)
(***************************************************************************)
HandleFiles(n, suggestOk) ==
    /\ pc = "idle"
    /\ dropZoneShown
    /\ hasFile' = TRUE
    /\ totalPages' = n
    /\ dropZoneShown' = FALSE
    /\ accumulatedData' = <<>>
    /\ runStatus' = "none"
    /\ yielded' = <<>>
    /\ runPageCount' = 0
    /\ groupIndex' = 0
    /\ IF extractionMode = "field"
       THEN /\ n \in 1..MaxPages
            /\ fieldsShown' = suggestOk
            /\ uiError' = IF suggestOk THEN NoError
                          ELSE [NoError EXCEPT !.text = "Could not get field suggestions"]
            /\ isProcessing' = FALSE
            /\ pc' = "idle"
            /\ op' = "none"
            /\ operation' = NoRequest
            /\ attempt' = 0
            /\ waits' = <<>>
            /\ invocations' = 0
            /\ retryResult' = "none"
            /\ lastErrorKind' = "none"
            /\ lastErrorText' = ""
            /\ request' = request
       ELSE /\ n \in 1..MaxTablePages
            /\ suggestOk
            /\ fieldsShown' = FALSE
            /\ uiError' = NoError
            /\ isProcessing' = TRUE
            /\ StartRetryOperation("table", NoGroupInfo)
    /\ lastRequested' = -1
    /\ srvGroupInfo' = NoGroupInfo
    /\ spc' = "idle"
    /\ inferenceInFlight' = {}
    /\ headerAttempt' = 0
    /\ headerFailures' = 0
    /\ headers' = <<>>
    /\ headersFrom' = "none"
    /\ pageNum' = 0
    /\ pageAttempt' = 0
    /\ srvWaits' = <<>>
    /\ extractedData' = <<>>
    /\ pageGroupCache' = <<>>
    /\ sliceFetches' = <<>>
    /\ exhaustedPages' = {}
    /\ UNCHANGED <<extractionMode, response>>
    /\ UNCHANGED auxVars

(***************************************************************************)
(* A 'drop' on the drop zone with files FileUploader.validateFiles rejects *)
(* (not a PDF, too large, too many).  The listener has no guard on the     *)
(* processing state: handleFiles calls resetState, the conversion returns  *)
(* null, handleError shows the message and the finally block clears the    *)
(* processing flag, all before any other event is handled.                 *)
(***************************************************************************)
HandleRejectedFiles ==
    /\ dropZoneShown
    /\ accumulatedData' = <<>>
    /\ fieldsShown' = FALSE
    /\ dropZoneShown' = FALSE
    /\ isProcessing' = FALSE
    /\ uiError' = [NoError EXCEPT !.text = "An error occurred while processing files. Please try again."]
    /\ UNCHANGED <<extractionMode, hasFile, totalPages, runStatus, pc, op, operation, groupIndex, attempt,
                   invocations, retryResult, lastErrorKind, lastErrorText, yielded, runPageCount, waits>>
    /\ UNCHANGED <<wireVars, serverVars, lastRequested, auxVars>>

(***************************************************************************)
(* 'fieldsSelected' event -> EventHandler.startGroupProcessing, up to the  *)
(* first fetch of the first group (ApiService.processGroups,               *)
(* extractDataFromGroup, retryOperation).                                  *)
(***************************************************************************)
FieldsSelected(anySelected) ==
    /\ pc = "idle"
    /\ fieldsShown
    /\ ~isProcessing
    /\ hasFile
    /\ Len(accumulatedData) <= MaxAccumulated
    /\ IF ~anySelected
       THEN /\ uiError' = [NoError EXCEPT !.text = "Please select at least one field to analyze."]
            /\ UNCHANGED <<runStatus, pc, op, operation, groupIndex, attempt, invocations,
                           retryResult, lastErrorKind, lastErrorText, yielded, runPageCount,
                           isProcessing, request, lastRequested, waits>>
       ELSE /\ runStatus' = "running"
            /\ isProcessing' = TRUE
            /\ yielded' = <<>>
            /\ runPageCount' = 0
            /\ groupIndex' = 0
            /\ uiError' = NoError
            /\ lastRequested' = -1
            /\ StartRetryOperation("group", GroupInfo(0, totalPages))
    /\ UNCHANGED <<extractionMode, hasFile, totalPages, fieldsShown, dropZoneShown,
                   accumulatedData, response>>
    /\ UNCHANGED <<serverVars, auxVars>>

(***************************************************************************)
(* ApiService.processGroups, the for loop's step groupIndex++              *)
(***************************************************************************)
NextGroupIndexBackwards(g) == g - 1

NextGroupIndex(g) == g + 1

(***************************************************************************)
(* UIController.setProcessingState: the value it leaves in                 *)
(* state.isProcessing; uploadButton.disabled is given the same value.      *)
(***************************************************************************)
setProcessingStateIgnored(processing) == isProcessing

setProcessingState(processing) == processing

UploadButtonDisabled == isProcessing

(***************************************************************************)
(* The end of a client flow: the finally blocks of startGroupProcessing    *)
(* and startTableExtraction call setProcessingState(false).                *)
(***************************************************************************)
FlowEnds ==
    /\ pc' = "idle"
    /\ op' = "none"
    /\ isProcessing' = setProcessingState(FALSE)
    /\ UNCHANGED <<attempt, invocations, operation, waits>>

(***************************************************************************)
(* retryOperation rejects.  Group: processGroups yields a success:false    *)
(* record and breaks; startGroupProcessing throws, shows the message and   *)
(* ends.  Table: extractTableData's finally block reads pageCount, which   *)
(* is declared inside the try block, and throws a ReferenceError.  A       *)
(* direct call of an ApiService method rejects to its caller.              *)
(***************************************************************************)
OperationRejected(kind, text) ==
    /\ FlowEnds
    /\ retryResult' = "rejected"
    /\ IF op = "group"
       THEN /\ yielded' = Append(yielded, [success |-> FALSE,
                                           groupInfo |-> GroupInfo(groupIndex, totalPages)])
            /\ runStatus' = "failed"
            /\ uiError' = GroupFailureMessage(GroupInfo(groupIndex, totalPages), kind, text)
       ELSE /\ uiError' = IF op = "table" THEN TableFailureMessage ELSE uiError
            /\ UNCHANGED <<yielded, runStatus>>
    /\ UNCHANGED <<groupIndex, accumulatedData, runPageCount>>

(***************************************************************************)
(* retryOperation's catch block after a failed attempt (lines 37-55).      *)
(* mergePDFs (lines 70-99) fetches without retryOperation: its failure is  *)
(* thrown to the caller at once.                                           *)
(***************************************************************************)
UsesRetryOperation(o) == o # "merge"

ConnectionGivesUpAtOnce(kind, att) == kind = "network"

ConnectionGivesUp(kind, att) == kind = "network" /\ att = MAX_RETRIES

AttemptFailed(kind, text) ==
    /\ lastErrorKind' = kind
    /\ lastErrorText' = text
    /\ IF UsesRetryOperation(op) /\ ~ConnectionGivesUp(kind, attempt) /\ RetryAgain(attempt)
       THEN /\ pc' = "delaying"
            /\ waits' = Append(waits, RETRY_DELAY)
            /\ UNCHANGED <<op, operation, isProcessing, attempt, invocations, retryResult, yielded,
                           runStatus, uiError, groupIndex, accumulatedData, runPageCount>>
       ELSE OperationRejected(kind, text)

(***************************************************************************)
(* retryOperation returns the operation's result.  Group: processGroups    *)
(* yields a success record, startGroupProcessing ingests it with           *)
(* updateTableWithGroupData, and the generator goes on to the next group   *)
(* or ends.  Table: as for a rejection, the finally block throws.          *)
(***************************************************************************)
AttemptSucceeded(pages) ==
    /\ UNCHANGED <<lastErrorKind, lastErrorText>>
    /\ IF op = "group"
       THEN /\ yielded' = Append(yielded, [success |-> TRUE,
                                           groupInfo |-> GroupInfo(groupIndex, totalPages)])
            /\ accumulatedData' = IngestPages(accumulatedData, pages)
            /\ runPageCount' = runPageCount + Len(pages)
            /\ uiError' = uiError
            /\ groupIndex' = NextGroupIndex(groupIndex)
            /\ IF NextGroupIndex(groupIndex) < TotalGroups(totalPages)
               THEN /\ pc' = "attempting"
                    /\ attempt' = 1
                    /\ invocations' = 1
                    /\ retryResult' = "pending"
                    /\ waits' = <<>>
                    /\ request' = Request("group", GroupInfo(NextGroupIndex(groupIndex), totalPages))
                    /\ operation' = request'
                    /\ UNCHANGED <<op, isProcessing, runStatus>>
               ELSE /\ FlowEnds
                    /\ retryResult' = "resolved"
                    /\ runStatus' = "done"
                    /\ request' = request
       ELSE /\ FlowEnds
            /\ retryResult' = "resolved"
            /\ uiError' = IF op = "table" THEN TableFailureMessage ELSE uiError
            /\ UNCHANGED <<yielded, runStatus, groupIndex, accumulatedData, runPageCount, request>>

(***************************************************************************)
(* fetch rejects ("Failed to fetch"): the server never took the request    *)
(***************************************************************************)
FetchFails ==
    /\ pc = "attempting"
    /\ request # NoRequest
    /\ AttemptFailed("network", "Failed to fetch")
    /\ request' = NoRequest
    /\ UNCHANGED <<extractionMode, hasFile, totalPages, fieldsShown, dropZoneShown, response>>
    /\ UNCHANGED <<serverVars, lastRequested, auxVars>>

(***************************************************************************)
(* server.js /extract-data-group, lines 247-302: input check, slice of the *)
(* group's pages (PDFHandler.getPageGroup, which throws for a group that   *)
(* starts beyond the document, lines 98-103), then the inference call.     *)
(***************************************************************************)
GroupIndexExceeds(g, total) == g * PAGES_PER_GROUP >= total

ServerGroupStart(sliceOk) ==
    /\ request.endpoint = "group"
    /\ spc = "idle"
    /\ request' = NoRequest
    /\ IF ~request.valid
       THEN /\ response' = ErrorResponse(400, "Invalid input provided")
            /\ UNCHANGED <<spc, srvGroupInfo, inferenceInFlight, lastRequested>>
       ELSE IF GroupIndexExceeds(request.groupInfo.groupIndex, totalPages)
       THEN /\ response' = ErrorResponse(500,
                                "Failed to extract page group: Group index exceeds total pages")
            /\ UNCHANGED <<spc, srvGroupInfo, inferenceInFlight, lastRequested>>
       ELSE IF sliceOk
       THEN /\ spc' = "group"
            /\ srvGroupInfo' = request.groupInfo
            /\ inferenceInFlight' = inferenceInFlight \cup {request.groupInfo.groupIndex}
            /\ lastRequested' = IF request.groupInfo.groupIndex > lastRequested
                                THEN request.groupInfo.groupIndex ELSE lastRequested
            /\ response' = response
       ELSE /\ response' = ErrorResponse(500, "Failed to extract page group")
            /\ UNCHANGED <<spc, srvGroupInfo, inferenceInFlight, lastRequested>>
    /\ UNCHANGED <<headerAttempt, headerFailures, headers, headersFrom, pageNum, pageAttempt,
                   extractedData, exhaustedPages, srvWaits,
                   pageGroupCache, sliceFetches>>
    /\ UNCHANGED <<clientVars, auxVars>>

(***************************************************************************)
(* server.js /extract-data-group, lines 302-349: the inference call        *)
(* settles; the text is parsed and validated and the response is sent.     *)
(***************************************************************************)
GroupInferenceReturns(result) ==
    /\ spc = "group"
    /\ spc' = "idle"
    /\ srvGroupInfo' = NoGroupInfo
    /\ inferenceInFlight' = inferenceInFlight \ {srvGroupInfo.groupIndex}
    /\ response' = IF GroupResultAccepted(result)
                   THEN [SuccessResponse EXCEPT !.pages = result.pages]
                   ELSE ErrorResponse(500, GroupResultError(result))
    /\ UNCHANGED <<lastRequested, headerAttempt, headerFailures, headers, headersFrom, pageNum, pageAttempt,
                   extractedData, exhaustedPages, request, srvWaits,
                   pageGroupCache, sliceFetches>>
    /\ UNCHANGED <<clientVars, auxVars>>

(***************************************************************************)
(* fetch resolves: the operation passed to retryOperation reads the        *)
(* response (extractDataFromGroup lines 171-181, extractTableData lines    *)
(* 208-218) and throws unless it is ok and success.  The group operation   *)
(* throws the server's error text; the table, page count and field         *)
(* suggestion operations throw on the status alone, before they read the   *)
(* body.                                                                   *)
(***************************************************************************)
OperationErrorText(resp) ==
    IF operation.endpoint \in {"table", "pageCount", "suggest"}
    THEN (IF resp.status = 400 THEN "API request failed: 400" ELSE "API request failed: 500")
    ELSE IF op = "merge" /\ resp.status # 200 THEN "Merge request failed"
    ELSE IF op = "merge" /\ resp.success THEN "Merge response invalid"
    ELSE resp.error

(***************************************************************************)
(* What the operation takes as a good answer: response.ok and              *)
(* data.success, and for mergePDFs (line 89) a non-empty data.mergedPDF.   *)
(***************************************************************************)
OperationAccepts(resp) ==
    /\ resp.status = 200
    /\ resp.success
    /\ op = "merge" => resp.mergedPDF.kind # "empty"

ClientReceives ==
    /\ pc = "attempting"
    /\ response # NoResponse
    /\ response' = NoResponse
    /\ IF OperationAccepts(response)
       THEN AttemptSucceeded(response.pages)
       ELSE /\ AttemptFailed("server", OperationErrorText(response))
            /\ request' = request
    /\ UNCHANGED <<extractionMode, hasFile, totalPages, fieldsShown, dropZoneShown>>
    /\ UNCHANGED <<serverVars, lastRequested, auxVars>>

(***************************************************************************)
(* retryOperation, line 53: the 15 s delay is over; the loop makes the     *)
(* next attempt.                                                           *)
(***************************************************************************)
DelayElapsed ==
    /\ pc = "delaying"
    /\ pc' = "attempting"
    /\ attempt' = attempt + 1
    /\ invocations' = invocations + 1
    /\ request' = operation
    /\ UNCHANGED operation
    /\ UNCHANGED <<extractionMode, hasFile, totalPages, fieldsShown, dropZoneShown, isProcessing,
                   runStatus, op, groupIndex, retryResult, lastErrorKind,
                   lastErrorText, yielded, accumulatedData, runPageCount, uiError, response,
                   waits>>
    /\ lastRequested' = IF operation.endpoint = "table" THEN -1 ELSE lastRequested
    /\ UNCHANGED <<serverVars, auxVars>>

(***************************************************************************)
(* The PDFs a caller may send to /merge-pdfs: the empty string, bytes that *)
(* are no PDF, and documents A and B of 1..MaxDocPages pages.              *)
(***************************************************************************)
EmptyDoc == [kind |-> "empty", pages |-> <<>>]

GarbageDoc == [kind |-> "garbage", pages |-> <<>>]

PdfDoc(name, n) == [kind |-> "pdf", pages |-> [k \in 1..n |-> <<name, k>>]]

InputDocs == {EmptyDoc, GarbageDoc} \cup {PdfDoc(name, n) : name \in {"A", "B"}, n \in 1..MaxDocPages}

MergeInputs == SeqsUpTo(InputDocs, MaxMergeInputs)

(***************************************************************************)
(* PDFHandler.mergeBase64PDFs, lines 140-186.  An empty input is skipped   *)
(* (150-153); an input that fails to load is caught and skipped (171-174); *)
(* the pages of every other input are copied and added at the end, in      *)
(* order (167-170).                                                        *)
(***************************************************************************)
CopiedPages(doc) == IF doc.kind = "pdf" THEN doc.pages ELSE <<>>

AddPagesInFront(merged, pages) == pages \o merged

AddPages(merged, pages) == merged \o pages

LoadFailureAbortsMerge(doc) == doc.kind = "garbage"

LoadFailureAborts(doc) == FALSE

RECURSIVE MergeLoop(_, _, _)
MergeLoop(pdfs, i, merged) ==
    IF i > Len(pdfs) THEN merged
    ELSE MergeLoop(pdfs, i + 1, AddPages(merged, CopiedPages(pdfs[i])))

mergeBase64PDFs(pdfs) == [kind |-> "pdf", pages |-> MergeLoop(pdfs, 1, <<>>)]

MergeThrows(pdfs, libOk) == ~libOk \/ \E i \in 1..Len(pdfs) : LoadFailureAborts(pdfs[i])

MergeErrorText(pdfs) ==
    IF \E i \in 1..Len(pdfs) : LoadFailureAborts(pdfs[i])
    THEN "Failed to merge PDF files: Failed to parse PDF document"
    ELSE "Failed to merge PDF files: the document could not be created or saved"

(***************************************************************************)
(* server.js /merge-pdfs, lines 81-115.  libOk: PDFDocument.create and     *)
(* save succeed.                                                           *)
(***************************************************************************)
MergeHandler(libOk) ==
    /\ request.endpoint = "merge"
    /\ spc = "idle"
    /\ request' = NoRequest
    /\ response' = IF ~request.valid
                   THEN ErrorResponse(400, "Invalid input: pdfs array is required")
                   ELSE IF Len(request.pdfs) = 1
                   THEN [SuccessResponse EXCEPT !.mergedPDF = request.pdfs[1]]
                   ELSE IF MergeThrows(request.pdfs, libOk)
                   THEN ErrorResponse(500, MergeErrorText(request.pdfs))
                   ELSE [SuccessResponse EXCEPT !.mergedPDF = mergeBase64PDFs(request.pdfs)]
    /\ UNCHANGED <<clientVars, serverVars, lastRequested, auxVars>>

(***************************************************************************)
(* server.js /get-page-count, lines 118-144.  loadOk: PDFHandler           *)
(* .getPageCount (PDFDocument.load) succeeds.                              *)
(***************************************************************************)
GetPageCountHandler(loadOk) ==
    /\ request.endpoint = "pageCount"
    /\ spc = "idle"
    /\ request' = NoRequest
    /\ response' = IF ~request.valid THEN ErrorResponse(400, "No PDF content provided")
                   ELSE IF ~loadOk THEN ErrorResponse(500, "Failed to parse PDF document")
                   ELSE [SuccessResponse EXCEPT !.pageCount = totalPages]
    /\ UNCHANGED <<clientVars, serverVars, lastRequested, auxVars>>

(***************************************************************************)
(* server.js /suggest-fields, lines 147-244.  The answer of the model is   *)
(* parsed, filtered to well-formed {fieldName, description} entries and    *)
(* rejected when nothing is left.  "sliceFails": getFirstPageBase64        *)
(* throws; "throws": generateContent rejects or has no candidate text.     *)
(***************************************************************************)
SuggestResults ==
    {[kind |-> k, fields |-> <<>>] : k \in {"sliceFails", "throws", "badJson", "notArray", "array"}}
    \cup {[kind |-> "array", fields |-> <<"invoiceNumber">>],
          [kind |-> "array", fields |-> <<"invoiceNumber", "invoiceDate">>]}

SuggestErrorText(result) ==
    IF result.kind = "sliceFails" THEN "Failed to parse PDF document"
    ELSE IF result.kind = "throws" THEN "inference error"
    ELSE "Failed to parse field suggestions from AI response"

SuggestFieldsHandler(result) ==
    /\ request.endpoint = "suggest"
    /\ spc = "idle"
    /\ request' = NoRequest
    /\ response' = IF ~request.valid THEN ErrorResponse(400, "No PDF content provided")
                   ELSE IF result.kind = "array" /\ result.fields # <<>>
                   THEN [SuccessResponse EXCEPT !.fields = result.fields]
                   ELSE ErrorResponse(500, SuggestErrorText(result))
    /\ UNCHANGED <<clientVars, serverVars, lastRequested, auxVars>>

(***************************************************************************)
(* What the inference backend may answer to the header prompt and to a     *)
(* page prompt of /extract-table-data.  "throws": generateContent rejects  *)
(* or the answer has no candidate text; "badJson": JSON.parse (or, for     *)
(* rows, the map over a value that is not an array of arrays) throws.      *)
(***************************************************************************)
MODEL_HEADERS == <<"Date", "Details", "Debit">>

HeaderResults ==
    {[kind |-> "throws", value |-> "none"],
     [kind |-> "badJson", value |-> "none"],
     [kind |-> "parsed", value |-> "array"],
     [kind |-> "parsed", value |-> "emptyArray"],
     [kind |-> "parsed", value |-> "notArray"]}

CellValues == {"two\nlines", "null"}

PageResults ==
    {[kind |-> "throws", rows |-> <<>>], [kind |-> "badJson", rows |-> <<>>],
     [kind |-> "rows", rows |-> <<>>]}
    \cup {[kind |-> "rows", rows |-> <<<<c>>>>] : c \in CellValues}

(***************************************************************************)
(* server.js lines 515-517: String(cell || '') with line breaks replaced   *)
(***************************************************************************)
SanitizeCell(c) ==
    IF c = "null" THEN ""
    ELSE IF c = "two\nlines" THEN "two lines"
    ELSE c

SanitizeRows(rows) == [i \in 1..Len(rows) |-> [j \in 1..Len(rows[i]) |-> SanitizeCell(rows[i][j])]]

(***************************************************************************)
(* server.js lines 428-432: the headers used after the header retry loop   *)
(***************************************************************************)
HeadersAfterLoop(value) == IF value = "array" THEN MODEL_HEADERS ELSE DEFAULT_HEADERS

HeadersSource(value) == IF value = "array" THEN "model" ELSE "default"

TablePage(p, h, rows) == [pageNumber |-> p, tableData |-> [headers |-> h, rows |-> rows]]

ServerError(text) == ErrorResponse(500, text)

(***************************************************************************)
(* server.js lines 354-397: the table request is taken; page count and     *)
(* first-page slice are computed and the first header inference is sent.   *)
(***************************************************************************)
TableRequestStart(pdfOk) ==
    /\ request.endpoint = "table"
    /\ spc = "idle"
    /\ request' = NoRequest
    /\ headers' = <<>>
    /\ headersFrom' = "none"
    /\ headerFailures' = 0
    /\ extractedData' = <<>>
    /\ pageGroupCache' = <<>>
    /\ sliceFetches' = <<>>
    /\ exhaustedPages' = {}
    /\ pageNum' = 0
    /\ pageAttempt' = 0
    /\ srvWaits' = <<>>
    /\ IF ~request.valid
       THEN /\ response' = ErrorResponse(400, "No PDF content provided")
            /\ UNCHANGED <<spc, headerAttempt, inferenceInFlight, lastRequested>>
       ELSE IF pdfOk
       THEN /\ spc' = "header"
            /\ headerAttempt' = 1
            /\ inferenceInFlight' = inferenceInFlight \cup {0}
            /\ lastRequested' = 0
            /\ response' = response
       ELSE /\ response' = ServerError("Failed to load PDF")
            /\ UNCHANGED <<spc, headerAttempt, inferenceInFlight, lastRequested>>
    /\ UNCHANGED srvGroupInfo
    /\ UNCHANGED <<clientVars, auxVars>>

(***************************************************************************)
(* The result object getPageGroup builds, lines 98-123: the pages          *)
(* startPage+1..endPage of pdfDoc.                                         *)
(***************************************************************************)
PageGroupResultZeroBased(pdfDoc, g, id) ==
    LET startPage == g * PAGES_PER_GROUP
        endPage == MathMin(startPage + PAGES_PER_GROUP, pdfDoc.pageCount)
    IN  [id |-> id, base64 |-> pdfDoc.base64, startPage |-> startPage, endPage |-> endPage,
         totalPages |-> pdfDoc.pageCount, isLastGroup |-> endPage = pdfDoc.pageCount]

PageGroupResult(pdfDoc, g, id) ==
    LET startPage == g * PAGES_PER_GROUP
        endPage == MathMin(startPage + PAGES_PER_GROUP, pdfDoc.pageCount)
    IN  [id |-> id, base64 |-> pdfDoc.base64, startPage |-> startPage + 1, endPage |-> endPage,
         totalPages |-> pdfDoc.pageCount, isLastGroup |-> endPage = pdfDoc.pageCount]

(***************************************************************************)
(* server.js lines 443-493: a page's first attempt.  The group slice of    *)
(* the page is fetched when pageGroupCache does not hold it yet (a page     *)
(* that opens a group), and a failure of getPageGroup ends the request     *)
(* with a 500 response.                                                    *)
(***************************************************************************)
TableGroupIndex(p) == MathFloorDiv(p - 1, 10)

OpensGroupAlways(p) == TRUE

OpensGroup(p) == TableGroupIndex(p) \notin DOMAIN pageGroupCache

StartPage(p, sliceOk, pending) ==
    /\ pageNum' = p
    /\ sliceFetches' = IF OpensGroup(p) THEN Append(sliceFetches, TableGroupIndex(p))
                       ELSE sliceFetches
    /\ pageGroupCache' =
          IF OpensGroup(p) /\ sliceOk
          THEN [g \in DOMAIN pageGroupCache \cup {TableGroupIndex(p)} |->
                  IF g = TableGroupIndex(p)
                  THEN PageGroupResult([id |-> 0, base64 |-> <<>>, pageCount |-> totalPages],
                                       TableGroupIndex(p), 0)
                  ELSE pageGroupCache[g]]
          ELSE pageGroupCache
    /\ IF OpensGroup(p) /\ ~sliceOk
       THEN /\ spc' = "idle"
            /\ response' = ServerError("Failed to extract page group")
            /\ inferenceInFlight' = pending
            /\ srvWaits' = <<>>
            /\ UNCHANGED <<pageAttempt, lastRequested>>
       ELSE /\ spc' = "page"
            /\ pageAttempt' = 1
            /\ srvWaits' = <<>>
            /\ inferenceInFlight' = pending \cup {p}
            /\ lastRequested' = IF p > lastRequested THEN p ELSE lastRequested
            /\ response' = response

(***************************************************************************)
(* server.js lines 395-432: a header attempt settles.  When the loop is    *)
(* left with headers its loop variable is gone and is set back.            *)
(***************************************************************************)
HeaderGivesUp(att) == att = HEADER_RETRIES

(***************************************************************************)
(* server.js lines 419, 424: await delay(attempt * 3000)                   *)
(***************************************************************************)
HeaderBackoffFlat(att) == HEADER_DELAY_UNIT

HeaderBackoff(att) == att * HEADER_DELAY_UNIT

HeaderInferenceReturns(result, sliceOk) ==
    /\ spc = "header"
    /\ IF result.kind = "parsed"
       THEN /\ headers' = HeadersAfterLoop(result.value)
            /\ headersFrom' = HeadersSource(result.value)
            /\ StartPage(1, sliceOk, inferenceInFlight \ {0})
            /\ headerAttempt' = 0
            /\ headerFailures' = 0
       ELSE /\ headerFailures' = headerFailures + 1
            /\ inferenceInFlight' = inferenceInFlight \ {0}
            /\ IF HeaderGivesUp(headerAttempt)
               THEN /\ spc' = "idle"
                    /\ response' = ServerError("Header extraction failed")
                    /\ srvWaits' = srvWaits
               ELSE /\ spc' = "headerDelay"
                    /\ response' = response
                    /\ srvWaits' = Append(srvWaits, HeaderBackoff(headerAttempt))
            /\ UNCHANGED <<headerAttempt, headers, headersFrom, pageNum, pageAttempt,
                           lastRequested, pageGroupCache, sliceFetches>>
    /\ UNCHANGED <<srvGroupInfo, extractedData, exhaustedPages, request>>
    /\ UNCHANGED <<clientVars, auxVars>>

(***************************************************************************)
(* server.js lines 419, 424: the delay of attempt x 3 s is over.           *)
(***************************************************************************)
HeaderDelayElapsed ==
    /\ spc = "headerDelay"
    /\ spc' = "header"
    /\ headerAttempt' = headerAttempt + 1
    /\ inferenceInFlight' = inferenceInFlight \cup {0}
    /\ UNCHANGED <<srvGroupInfo, lastRequested, headerFailures, headers, headersFrom, pageNum,
                   pageAttempt, extractedData, exhaustedPages, srvWaits,
                   pageGroupCache, sliceFetches>>
    /\ UNCHANGED <<clientVars, wireVars, auxVars>>

(***************************************************************************)
(* server.js lines 563-579: a page is finished (an entry was pushed).      *)
(* The loop waits 15 s before the next page, or sorts and responds.        *)
(***************************************************************************)
PageFinished(pagesNow) ==
    IF pageNum < totalPages
    THEN /\ spc' = "interPageDelay"
         /\ response' = response
    ELSE /\ spc' = "idle"
         /\ response' = [SuccessResponse EXCEPT !.pages = SortByPageNumber(pagesNow)]

(***************************************************************************)
(* server.js lines 458-562: a page attempt settles.                        *)
(***************************************************************************)
PageGivesUpLate(att) == att = PAGE_RETRIES + 1

PageGivesUp(att) == att = PAGE_RETRIES

(***************************************************************************)
(* server.js lines 531-539 and 548-556: what the loop pushes for a page    *)
(* whose last attempt failed                                               *)
(***************************************************************************)
NoEntryForExhaustedPage(p, h) == <<>>

EntryForExhaustedPage(p, h) == <<TablePage(p, h, <<>>)>>

PageInferenceReturns(result) ==
    /\ spc = "page"
    /\ inferenceInFlight' = inferenceInFlight \ {pageNum}
    /\ IF result.kind = "rows"
       THEN /\ extractedData' = Append(extractedData,
                                       TablePage(pageNum, headers, SanitizeRows(result.rows)))
            /\ PageFinished(extractedData')
            /\ UNCHANGED <<exhaustedPages, srvWaits>>
       ELSE IF PageGivesUp(pageAttempt)
       THEN /\ extractedData' = extractedData \o EntryForExhaustedPage(pageNum, headers)
            /\ exhaustedPages' = exhaustedPages \cup {pageNum}
            /\ PageFinished(extractedData')
            /\ srvWaits' = srvWaits
       ELSE /\ spc' = "pageDelay"
            /\ srvWaits' = Append(srvWaits, PAGE_RETRY_DELAY)
            /\ UNCHANGED <<extractedData, exhaustedPages, response>>
    /\ UNCHANGED <<srvGroupInfo, lastRequested, headerAttempt, headerFailures, headers,
                   headersFrom, pageNum, pageAttempt, request, pageGroupCache, sliceFetches>>
    /\ UNCHANGED <<clientVars, auxVars>>

(***************************************************************************)
(* server.js lines 542, 559: the 15 s delay between two attempts is over.  *)
(***************************************************************************)
PageDelayElapsed ==
    /\ spc = "pageDelay"
    /\ spc' = "page"
    /\ pageAttempt' = pageAttempt + 1
    /\ inferenceInFlight' = inferenceInFlight \cup {pageNum}
    /\ UNCHANGED <<srvGroupInfo, lastRequested, headerAttempt, headerFailures, headers,
                   headersFrom, pageNum, extractedData, exhaustedPages, srvWaits,
                   pageGroupCache, sliceFetches>>
    /\ UNCHANGED <<clientVars, wireVars, auxVars>>

(***************************************************************************)
(* server.js lines 565-568 and 443: the 15 s delay between two pages is    *)
(* over; the loop goes on with pageNum++.                                  *)
(***************************************************************************)
NextPageNum(p) == p + 1

InterPageDelayElapsed(sliceOk) ==
    /\ spc = "interPageDelay"
    /\ StartPage(NextPageNum(pageNum), sliceOk, inferenceInFlight)
    /\ UNCHANGED <<srvGroupInfo, headerAttempt, headerFailures, headers, headersFrom,
                   extractedData, exhaustedPages, request>>
    /\ UNCHANGED <<clientVars, auxVars>>

Next ==
    \/ \E m \in {"field", "table"} : ModeSelected(m)
    \/ \E n \in (1..MaxPages) \cup (1..MaxTablePages), ok \in BOOLEAN : HandleFiles(n, ok)
    \/ HandleRejectedFiles
    \/ \E sel \in BOOLEAN : FieldsSelected(sel)
    \/ \E ok \in BOOLEAN : ServerGroupStart(ok)
    \/ \E r \in GroupResults : GroupInferenceReturns(r)
    \/ FetchFails
    \/ ClientReceives
    \/ DelayElapsed
    \/ \E ok \in BOOLEAN : TableRequestStart(ok)
    \/ \E r \in HeaderResults, ok \in BOOLEAN : HeaderInferenceReturns(r, ok)
    \/ HeaderDelayElapsed
    \/ \E r \in PageResults : PageInferenceReturns(r)
    \/ PageDelayElapsed
    \/ \E ok \in BOOLEAN : InterPageDelayElapsed(ok)

Spec == Init /\ [][Next]_vars

(***************************************************************************)
(* The accumulator alone: UIController.updateTableWithGroupData called     *)
(* directly with groups of pages whose page numbers are new, in any order. *)
(***************************************************************************)
IngestGroups ==
    {g \in SeqsUpTo([pageNumber : 1..MaxIngestPage, hasFields : {TRUE}], MaxIngestLen) :
        \A i, j \in 1..Len(g) : i # j => g[i].pageNumber # g[j].pageNumber}

updateTableWithGroupData(groupPages) ==
    /\ \A i \in 1..Len(groupPages) : groupPages[i].pageNumber \notin ingested
    /\ accumulatedData' = IngestPages(accumulatedData, groupPages)
    /\ ingested' = ingested \cup {groupPages[i].pageNumber : i \in 1..Len(groupPages)}
    /\ lastIngest' = groupPages
    /\ UNCHANGED <<extractionMode, hasFile, totalPages, fieldsShown, dropZoneShown, isProcessing,
                   runStatus, pc, op, operation, groupIndex, attempt, invocations,
                   retryResult, lastErrorKind, lastErrorText, yielded, runPageCount, uiError, waits>>
    /\ UNCHANGED <<wireVars, serverVars, lastRequested, calc, plan, validated, cacheVars>>

IngestNext == \E g \in IngestGroups : updateTableWithGroupData(g)

SpecIngest == Init /\ [][IngestNext]_vars

(***************************************************************************)
(* The grouping functions alone: ApiService.calculateGroupInfo called with *)
(* any page of any document size.                                          *)
(***************************************************************************)
CalculateGroupInfoCall(p, total) ==
    /\ calc' = [pageNumber |-> p, totalPages |-> total, info |-> calculateGroupInfo(p, total),
                threw |-> FALSE]
    /\ UNCHANGED <<clientVars, wireVars, serverVars, lastRequested, ingested, lastIngest, plan,
                   validated, cacheVars>>

PlanNext == \E total \in 1..MaxPlanPages : \E p \in 1..total : CalculateGroupInfoCall(p, total)

SpecPlan == Init /\ [][PlanNext]_vars

(***************************************************************************)
(* ApiService.processGroups alone, lines 293-306: the groupInfo records    *)
(* its loop builds when every group succeeds.  Neither it nor              *)
(* calculateGroupInfo checks its arguments or throws.                      *)
(***************************************************************************)
ProcessGroupsPlan(total) == [i \in 1..TotalGroups(total) |-> GroupInfo(i - 1, total)]

ProcessGroupsCall(total) ==
    /\ plan' = [totalPages |-> total, groups |-> ProcessGroupsPlan(total), called |-> TRUE,
                threw |-> FALSE]
    /\ UNCHANGED <<clientVars, wireVars, serverVars, lastRequested, ingested, lastIngest, calc,
                   validated, cacheVars>>

(***************************************************************************)
(* The grouping functions called with a totalPages below 1                 *)
(***************************************************************************)
InvalidPlanNext ==
    \/ \E total \in (0 - MaxInvalid)..0 : \E p \in (0 - MaxInvalid)..MaxInvalidPage :
          CalculateGroupInfoCall(p, total)
    \/ \E total \in (0 - MaxInvalid)..0 : ProcessGroupsCall(total)

SpecInvalidPlan == Init /\ [][InvalidPlanNext]_vars

(***************************************************************************)
(* The validation of /extract-data-group alone (server.js lines 307-334),  *)
(* given answers whose pages say which of the requested fields they carry  *)
(* with a {value, type} shape.  The request asked for SelectedFields.      *)
(***************************************************************************)
SelectedFields == {"invoiceNumber", "invoiceDate"}

DetailedPageEntries ==
    {e \in [pageNumber : 0..MaxBackendPage, hasFields : BOOLEAN, present : SUBSET SelectedFields] :
        ~e.hasFields => e.present = {}}

DetailedGroupResults ==
    {[kind |-> k, pages |-> <<>>] : k \in {"throws", "noJson", "badJson", "noPages"}}
    \cup {[kind |-> "pages", pages |-> q] : q \in SeqsUpTo(DetailedPageEntries, MaxValidateLen)}

ValidateGroupAnswer(result) ==
    /\ validated' = [called |-> TRUE, result |-> result, accepted |-> GroupResultAccepted(result)]
    /\ UNCHANGED <<clientVars, wireVars, serverVars, lastRequested, ingested, lastIngest, calc, plan,
                   cacheVars>>

ValidateNext == \E r \in DetailedGroupResults : ValidateGroupAnswer(r)

SpecValidate == Init /\ [][ValidateNext]_vars

(***************************************************************************)
(* The ApiService methods called directly, with any arguments, against the *)
(* server: extractDataFromGroup for a document of n pages, any groupIndex  *)
(* (groupInfo as processGroups would lay it out) and a body that may lack  *)
(* a required field.                                                       *)
(***************************************************************************)
ExtractDataFromGroupCall(n, g, bodyOk) ==
    /\ pc = "idle"
    /\ hasFile' = TRUE
    /\ totalPages' = n
    /\ StartRetry("groupCall", [Request("group", GroupInfo(g, n)) EXCEPT !.valid = bodyOk])
    /\ lastRequested' = -1
    /\ UNCHANGED <<extractionMode, fieldsShown, dropZoneShown, isProcessing, runStatus, groupIndex,
                   yielded, accumulatedData, runPageCount, uiError, response>>
    /\ UNCHANGED <<serverVars, auxVars>>

(***************************************************************************)
(* ApiService.mergePDFs(base64Array), lines 70-99                          *)
(***************************************************************************)
MergePDFsCall(pdfs, bodyOk) ==
    /\ pc = "idle"
    /\ StartRetry("merge", [Request("merge", NoGroupInfo) EXCEPT !.pdfs = pdfs, !.valid = bodyOk])
    /\ lastRequested' = -1
    /\ UNCHANGED <<extractionMode, hasFile, totalPages, fieldsShown, dropZoneShown, isProcessing,
                   runStatus, groupIndex, yielded, accumulatedData, runPageCount, uiError, response>>
    /\ UNCHANGED <<serverVars, auxVars>>

(***************************************************************************)
(* server.js lines 41-43 and the five app.post routes: an HTTP request     *)
(* for a document of n pages goes through express.json({limit: '100mb'})   *)
(* and is handed to its route.  parse: what the body parser makes of the   *)
(* body.  The file installs no error-handling middleware, so a body that   *)
(* is not JSON ("malformed", 400) or is over the limit ("tooLarge", 413)   *)
(* is answered by the framework's default error handler, with an HTML      *)
(* page, and never reaches the route.                                      *)
(***************************************************************************)
ParseOutcomes == {"parsed", "malformed", "tooLarge"}

DefaultErrorResponse(parse) ==
    [NoResponse EXCEPT !.status = IF parse = "malformed" THEN 400 ELSE 413, !.body = "html"]

Endpoints == {"merge", "pageCount", "suggest", "group", "table"}

RequestArrives(endpoint, parse, bodyOk, n, g, pdfs) ==
    /\ request = NoRequest
    /\ response = NoResponse
    /\ spc = "idle"
    /\ hasFile' = TRUE
    /\ totalPages' = n
    /\ IF parse = "parsed"
       THEN /\ request' = [Request(endpoint, IF endpoint = "group" THEN GroupInfo(g, n) ELSE NoGroupInfo)
                              EXCEPT !.valid = bodyOk,
                                     !.pdfs = IF endpoint = "merge" THEN pdfs ELSE <<>>]
            /\ response' = NoResponse
       ELSE /\ request' = NoRequest
            /\ response' = DefaultErrorResponse(parse)
    /\ lastRequested' = -1
    /\ srvGroupInfo' = NoGroupInfo
    /\ inferenceInFlight' = {}
    /\ headerAttempt' = 0
    /\ headerFailures' = 0
    /\ headers' = <<>>
    /\ headersFrom' = "none"
    /\ pageNum' = 0
    /\ pageAttempt' = 0
    /\ srvWaits' = <<>>
    /\ extractedData' = <<>>
    /\ pageGroupCache' = <<>>
    /\ sliceFetches' = <<>>
    /\ exhaustedPages' = {}
    /\ UNCHANGED <<extractionMode, fieldsShown, dropZoneShown, isProcessing, runStatus, pc, op,
                   operation, groupIndex, attempt, invocations, retryResult, lastErrorKind,
                   lastErrorText, yielded, accumulatedData, runPageCount, uiError, spc, waits>>
    /\ UNCHANGED auxVars

(***************************************************************************)
(* The caller has read the response of its request.                        *)
(***************************************************************************)
ResponseRead ==
    /\ response # NoResponse
    /\ response' = NoResponse
    /\ UNCHANGED <<clientVars, request, serverVars, lastRequested, auxVars>>

EndpointsNext ==
    \/ \E parse \in ParseOutcomes, ok \in BOOLEAN, pdfs \in MergeInputs :
          RequestArrives("merge", parse, ok, totalPages, 0, pdfs)
    \/ \E e \in Endpoints \ {"merge", "group"}, parse \in ParseOutcomes, ok \in BOOLEAN,
          n \in 1..MaxTablePages : RequestArrives(e, parse, ok, n, 0, <<>>)
    \/ \E parse \in ParseOutcomes, ok \in BOOLEAN, n \in 1..MaxTablePages, g \in 0..MaxCallGroup :
          RequestArrives("group", parse, ok, n, g, <<>>)
    \/ \E ok \in BOOLEAN : MergeHandler(ok)
    \/ \E ok \in BOOLEAN : GetPageCountHandler(ok)
    \/ \E r \in SuggestResults : SuggestFieldsHandler(r)
    \/ \E ok \in BOOLEAN : ServerGroupStart(ok)
    \/ \E r \in GroupResults : GroupInferenceReturns(r)
    \/ \E ok \in BOOLEAN : TableRequestStart(ok)
    \/ \E r \in HeaderResults, ok \in BOOLEAN : HeaderInferenceReturns(r, ok)
    \/ HeaderDelayElapsed
    \/ \E r \in PageResults : PageInferenceReturns(r)
    \/ PageDelayElapsed
    \/ \E ok \in BOOLEAN : InterPageDelayElapsed(ok)
    \/ ResponseRead

SpecEndpoints == Init /\ [][EndpointsNext]_vars

(***************************************************************************)
(* The /extract-table-data handler alone (server.js lines 354-588), for    *)
(* documents of several page groups.  The pages' answers are an empty      *)
(* table or a failure.                                                     *)
(***************************************************************************)
SlicePageResults == {r \in PageResults : r.rows = <<>>}

TableSlicesNext ==
    \/ \E n \in 1..MaxSlicePages : RequestArrives("table", "parsed", TRUE, n, 0, <<>>)
    \/ \E ok \in BOOLEAN : TableRequestStart(ok)
    \/ \E r \in HeaderResults, ok \in BOOLEAN : HeaderInferenceReturns(r, ok)
    \/ HeaderDelayElapsed
    \/ \E r \in SlicePageResults : PageInferenceReturns(r)
    \/ PageDelayElapsed
    \/ \E ok \in BOOLEAN : InterPageDelayElapsed(ok)
    \/ ResponseRead

SpecTableSlices == Init /\ [][TableSlicesNext]_vars

(***************************************************************************)
(* ApiService.mergePDFs called against the server's /merge-pdfs.           *)
(***************************************************************************)
MergeNext ==
    \/ \E pdfs \in MergeInputs, ok \in BOOLEAN : MergePDFsCall(pdfs, ok)
    \/ \E ok \in BOOLEAN : MergeHandler(ok)
    \/ FetchFails
    \/ ClientReceives

SpecMerge == Init /\ [][MergeNext]_vars

(***************************************************************************)
(* ApiService.extractDataFromGroup called against the server's             *)
(* /extract-data-group.                                                    *)
(***************************************************************************)
ApiNext ==
    \/ \E n \in 1..MaxCallPages, g \in 0..MaxCallGroup, ok \in BOOLEAN :
          ExtractDataFromGroupCall(n, g, ok)
    \/ \E ok \in BOOLEAN : ServerGroupStart(ok)
    \/ \E r \in GroupResults : GroupInferenceReturns(r)
    \/ FetchFails
    \/ ClientReceives
    \/ DelayElapsed

SpecApi == Init /\ [][ApiNext]_vars

(***************************************************************************)
(* PDFHandler alone (PDFHandler.js): getDocument, getPageGroup and         *)
(* clearCache called one after another on one handler, each call running   *)
(* to its end before the next starts.                                      *)
(*                                                                         *)
(* A file is the base64 string handed to the methods, as its char codes,   *)
(* and the number of pages PDFDocument.load finds in it (0: load rejects   *)
(* the bytes).  "Aa" and "BB" have the same hashString.                    *)
(***************************************************************************)
PdfFiles ==
    {[base64 |-> <<65, 97>>, pageCount |-> MaxCachePages],
     [base64 |-> <<66, 66>>, pageCount |-> 1],
     [base64 |-> <<97>>, pageCount |-> 0]}

(***************************************************************************)
(* PDFHandler.hashString, lines 17-25: hash = ((hash << 5) - hash) + char  *)
(* over the char codes.  For the strings of PdfFiles the value stays far   *)
(* inside 32 bits, where "hash & hash" leaves it as it is.                 *)
(***************************************************************************)
RECURSIVE hashFrom(_, _, _)
hashFrom(str, i, hash) ==
    IF i > Len(str) THEN hash
    ELSE hashFrom(str, i + 1, ((hash * 32) - hash) + str[i])

hashString(str) == hashFrom(str, 1, 0)

(***************************************************************************)
(* this.cache.documents.set(cacheKey, pdfDoc), line 39                     *)
(***************************************************************************)
SetDocumentSkipped(docs, key, doc) == docs

SetDocument(docs, key, doc) == [k \in DOMAIN docs \cup {key} |-> IF k = key THEN doc ELSE docs[k]]

(***************************************************************************)
(* PDFHandler.getDocument, lines 32-45, as a function of the cache: what   *)
(* it returns or that it throws, and the cache and load count it leaves.   *)
(* Each PDFDocument.load makes a new object, told apart by its id.         *)
(***************************************************************************)
getDocument(file) ==
    LET cacheKey == hashString(file.base64)
        pdfDoc == [id |-> loadCount + 1, base64 |-> file.base64, pageCount |-> file.pageCount]
    IN  IF cacheKey \in DOMAIN documents
        THEN [threw |-> FALSE, doc |-> documents[cacheKey], docs |-> documents, loads |-> loadCount]
        ELSE IF file.pageCount = 0
        THEN [threw |-> TRUE, doc |-> pdfDoc, docs |-> documents, loads |-> loadCount + 1]
        ELSE [threw |-> FALSE, doc |-> pdfDoc, docs |-> SetDocument(documents, cacheKey, pdfDoc),
              loads |-> loadCount + 1]

GetDocumentCall(file) ==
    LET got == getDocument(file)
    IN  /\ got.loads <= MaxLoads
        /\ documents' = got.docs
        /\ loadCount' = got.loads
        /\ lastCall' = [fn |-> "getDocument", base64 |-> file.base64, groupIndex |-> 0,
                        outcome |-> IF got.threw THEN "throws" ELSE "returned",
                        id |-> IF got.threw THEN 0 ELSE got.doc.id,
                        loaded |-> got.loads # loadCount, sliced |-> FALSE]
        /\ served' = IF got.threw THEN served
                     ELSE served \cup {[fn |-> "getDocument", base64 |-> file.base64,
                                        groupIndex |-> 0, id |-> got.doc.id]}
        /\ UNCHANGED <<pageGroups, sliceCount, suspended>>
        /\ UNCHANGED <<clientVars, wireVars, serverVars, lastRequested, ingested, lastIngest, calc,
                       plan, validated>>

(***************************************************************************)
(* The group cache key `${pdfHash}_group_${groupIndex}`, line 84           *)
(***************************************************************************)
GroupCacheKeyWithoutIndex(pdfHash, g) == <<pdfHash, 0>>

GroupCacheKey(pdfHash, g) == <<pdfHash, g>>

(***************************************************************************)
(* PDFHandler.getPageGroup, lines 81-133.  sliceOk: PDFDocument.create,    *)
(* copyPages and save succeed.  Every failure is rethrown by the catch     *)
(* block, after which nothing is put in the group cache.                   *)
(***************************************************************************)
GetPageGroupCall(file, g, sliceOk) ==
    LET cacheKey == GroupCacheKey(hashString(file.base64), g)
        got == getDocument(file)
        fails == \/ got.threw
                 \/ GroupIndexExceeds(g, got.doc.pageCount)
                 \/ ~sliceOk
        result == PageGroupResult(got.doc, g, sliceCount + 1)
        call == [fn |-> "getPageGroup", base64 |-> file.base64, groupIndex |-> g,
                 outcome |-> "returned", id |-> 0, loaded |-> FALSE, sliced |-> FALSE]
    IN  /\ IF cacheKey \in DOMAIN pageGroups
           THEN /\ lastCall' = [call EXCEPT !.id = pageGroups[cacheKey].id]
                /\ served' = served \cup {[fn |-> "getPageGroup", base64 |-> file.base64,
                                           groupIndex |-> g, id |-> pageGroups[cacheKey].id]}
                /\ UNCHANGED <<documents, pageGroups, loadCount, sliceCount>>
           ELSE /\ got.loads <= MaxLoads
                /\ documents' = got.docs
                /\ loadCount' = got.loads
                /\ IF fails
                   THEN /\ lastCall' = [call EXCEPT !.outcome = "throws",
                                                    !.loaded = got.loads # loadCount]
                        /\ UNCHANGED <<pageGroups, sliceCount, served>>
                   ELSE /\ sliceCount < MaxSlices
                        /\ sliceCount' = sliceCount + 1
                        /\ pageGroups' = [k \in DOMAIN pageGroups \cup {cacheKey} |->
                                            IF k = cacheKey THEN result ELSE pageGroups[k]]
                        /\ lastCall' = [call EXCEPT !.id = result.id, !.sliced = TRUE,
                                                    !.loaded = got.loads # loadCount]
                        /\ served' = served \cup {[fn |-> "getPageGroup", base64 |-> file.base64,
                                                   groupIndex |-> g, id |-> result.id]}
        /\ UNCHANGED suspended
        /\ UNCHANGED <<clientVars, wireVars, serverVars, lastRequested, ingested, lastIngest, calc,
                       plan, validated>>

(***************************************************************************)
(* PDFHandler.clearCache, lines 192-197                                    *)
(***************************************************************************)
ClearCacheCall ==
    /\ documents' = <<>>
    /\ pageGroups' = <<>>
    /\ served' = {}
    /\ lastCall' = [NoCall EXCEPT !.fn = "clearCache", !.outcome = "returned"]
    /\ suspended' = [s \in Requests |-> IF suspended[s].phase = "idle" THEN suspended[s]
                                       ELSE [suspended[s] EXCEPT !.cleared = TRUE]]
    /\ UNCHANGED <<loadCount, sliceCount>>
    /\ UNCHANGED <<clientVars, wireVars, serverVars, lastRequested, ingested, lastIngest, calc,
                   plan, validated>>

CacheNext ==
    \/ \E f \in PdfFiles : GetDocumentCall(f)
    \/ \E f \in PdfFiles, g \in 0..MaxCacheGroup, ok \in BOOLEAN : GetPageGroupCall(f, g, ok)
    \/ ClearCacheCall

SpecCache == Init /\ [][CacheNext]_vars

(***************************************************************************)
(* Overlapping requests on the shared PDFHandler (server.js line 38).  A   *)
(* call runs to its next await and is suspended there: getDocument at      *)
(* PDFDocument.load (line 39), getPageGroup at this.getDocument (line 92)  *)
(* and at PDFDocument.create, copyPages and save (lines 104-114).  The     *)
(* field cleared records that clearCache ran while the call was suspended. *)
(***************************************************************************)
LoadSettles(s) ==
    LET call == suspended[s]
        cacheKey == hashString(call.base64)
        pdfDoc == call.doc
        done == [fn |-> call.fn, base64 |-> call.base64, groupIndex |-> call.groupIndex,
                 outcome |-> "returned", id |-> pdfDoc.id, loaded |-> TRUE, sliced |-> FALSE]
    IN  /\ call.phase = "loading"
        /\ IF pdfDoc.pageCount = 0
           THEN /\ suspended' = [suspended EXCEPT ![s] = NoPending]
                /\ lastCall' = [done EXCEPT !.outcome = "throws", !.id = 0]
                /\ UNCHANGED documents
           ELSE /\ documents' = SetDocument(documents, cacheKey, pdfDoc)
                /\ IF call.fn = "getDocument"
                   THEN /\ suspended' = [suspended EXCEPT ![s] = NoPending]
                        /\ lastCall' = done
                   ELSE IF GroupIndexExceeds(call.groupIndex, pdfDoc.pageCount)
                   THEN /\ suspended' = [suspended EXCEPT ![s] = NoPending]
                        /\ lastCall' = [done EXCEPT !.outcome = "throws", !.id = 0]
                   ELSE /\ suspended' = [suspended EXCEPT ![s].phase = "slicing"]
                        /\ UNCHANGED lastCall
        /\ UNCHANGED <<pageGroups, loadCount, sliceCount, served>>
        /\ UNCHANGED <<clientVars, wireVars, serverVars, lastRequested, ingested, lastIngest, calc,
                       plan, validated>>

GetDocumentBegins(s, file) ==
    LET cacheKey == hashString(file.base64)
        pdfDoc == [id |-> loadCount + 1, base64 |-> file.base64, pageCount |-> file.pageCount]
    IN  /\ suspended[s].phase = "idle"
        /\ IF cacheKey \notin DOMAIN documents
           THEN /\ loadCount < MaxOverlapLoads
                /\ loadCount' = loadCount + 1
                /\ suspended' = [suspended EXCEPT ![s] =
                                  [fn |-> "getDocument", phase |-> "loading",
                                   base64 |-> file.base64, groupIndex |-> 0, doc |-> pdfDoc,
                                   cleared |-> FALSE]]
                /\ UNCHANGED lastCall
           ELSE /\ lastCall' = [fn |-> "getDocument", base64 |-> file.base64, groupIndex |-> 0,
                                outcome |-> "returned", id |-> documents[cacheKey].id,
                                loaded |-> FALSE, sliced |-> FALSE]
                /\ UNCHANGED <<loadCount, suspended>>
        /\ UNCHANGED <<documents, pageGroups, sliceCount, served>>
        /\ UNCHANGED <<clientVars, wireVars, serverVars, lastRequested, ingested, lastIngest, calc,
                       plan, validated>>

GetPageGroupBegins(s, file, g) ==
    LET pdfHash == hashString(file.base64)
        cacheKey == GroupCacheKey(pdfHash, g)
        pdfDoc == [id |-> loadCount + 1, base64 |-> file.base64, pageCount |-> file.pageCount]
        call == [fn |-> "getPageGroup", base64 |-> file.base64, groupIndex |-> g,
                 outcome |-> "returned", id |-> 0, loaded |-> FALSE, sliced |-> FALSE]
        parked == [fn |-> "getPageGroup", phase |-> "loading", base64 |-> file.base64,
                      groupIndex |-> g, doc |-> pdfDoc, cleared |-> FALSE]
    IN  /\ suspended[s].phase = "idle"
        /\ IF cacheKey \in DOMAIN pageGroups
           THEN /\ lastCall' = [call EXCEPT !.id = pageGroups[cacheKey].id]
                /\ UNCHANGED <<loadCount, suspended>>
           ELSE IF pdfHash \notin DOMAIN documents
           THEN /\ loadCount < MaxOverlapLoads
                /\ loadCount' = loadCount + 1
                /\ suspended' = [suspended EXCEPT ![s] = parked]
                /\ UNCHANGED lastCall
           ELSE IF GroupIndexExceeds(g, documents[pdfHash].pageCount)
           THEN /\ lastCall' = [call EXCEPT !.outcome = "throws"]
                /\ UNCHANGED <<loadCount, suspended>>
           ELSE /\ suspended' = [suspended EXCEPT ![s] =
                                  [parked EXCEPT !.phase = "slicing",
                                                    !.doc = documents[pdfHash]]]
                /\ UNCHANGED <<loadCount, lastCall>>
        /\ UNCHANGED <<documents, pageGroups, sliceCount, served>>
        /\ UNCHANGED <<clientVars, wireVars, serverVars, lastRequested, ingested, lastIngest, calc,
                       plan, validated>>

SliceSettles(s, sliceOk) ==
    LET call == suspended[s]
        cacheKey == GroupCacheKey(hashString(call.base64), call.groupIndex)
        result == PageGroupResult(call.doc, call.groupIndex, sliceCount + 1)
        done == [fn |-> "getPageGroup", base64 |-> call.base64, groupIndex |-> call.groupIndex,
                 outcome |-> "returned", id |-> result.id, loaded |-> FALSE, sliced |-> TRUE]
    IN  /\ call.phase = "slicing"
        /\ suspended' = [suspended EXCEPT ![s] = NoPending]
        /\ IF sliceOk
           THEN /\ sliceCount < MaxOverlapSlices
                /\ sliceCount' = sliceCount + 1
                /\ pageGroups' = [k \in DOMAIN pageGroups \cup {cacheKey} |->
                                    IF k = cacheKey THEN result ELSE pageGroups[k]]
                /\ lastCall' = done
           ELSE /\ lastCall' = [done EXCEPT !.outcome = "throws", !.id = 0, !.sliced = FALSE]
                /\ UNCHANGED <<pageGroups, sliceCount>>
        /\ UNCHANGED <<documents, loadCount, served>>
        /\ UNCHANGED <<clientVars, wireVars, serverVars, lastRequested, ingested, lastIngest, calc,
                       plan, validated>>

ConcurrentFiles == {f \in PdfFiles : f.pageCount \in {0, MaxCachePages}}

CacheConcurrentNext ==
    \/ \E s \in Requests, f \in ConcurrentFiles : GetDocumentBegins(s, f)
    \/ \E s \in Requests, f \in ConcurrentFiles, g \in 0..MaxCacheGroup :
            GetPageGroupBegins(s, f, g)
    \/ \E s \in Requests : LoadSettles(s)
    \/ \E s \in Requests, ok \in BOOLEAN : SliceSettles(s, ok)
    \/ ClearCacheCall

SpecCacheConcurrent == Init /\ [][CacheConcurrentNext]_vars


(***************************************************************************)
(* The flows followed to their end: a field-mode run (EventHandler         *)
(* .startGroupProcessing, ApiService.processGroups and retryOperation) and *)
(* a table extraction (server.js /extract-table-data) for documents of up  *)
(* to MaxTermPages pages, with answers of the backend that carry no page   *)
(* entries or rows.  The user's events may come at any time or never; a    *)
(* fetch, an inference call or a delay that has started settles (fetch and *)
(* generateContent resolve or reject, setTimeout fires).                   *)
(***************************************************************************)
TermGroupResults == {r \in GroupResults : r.pages = <<>>}

TerminationSettles ==
    \/ \E ok \in BOOLEAN : ServerGroupStart(ok)
    \/ \E r \in TermGroupResults : GroupInferenceReturns(r)
    \/ FetchFails
    \/ ClientReceives
    \/ DelayElapsed
    \/ \E ok \in BOOLEAN : TableRequestStart(ok)
    \/ \E r \in HeaderResults, ok \in BOOLEAN : HeaderInferenceReturns(r, ok)
    \/ HeaderDelayElapsed
    \/ \E r \in SlicePageResults : PageInferenceReturns(r)
    \/ PageDelayElapsed
    \/ \E ok \in BOOLEAN : InterPageDelayElapsed(ok)

TerminationNext ==
    \/ \E m \in {"field", "table"} : ModeSelected(m)
    \/ \E n \in 1..MaxTermPages, ok \in BOOLEAN : HandleFiles(n, ok)
    \/ HandleRejectedFiles
    \/ \E sel \in BOOLEAN : FieldsSelected(sel)
    \/ \E ok \in BOOLEAN : ServerGroupStart(ok)
    \/ \E r \in TermGroupResults : GroupInferenceReturns(r)
    \/ FetchFails
    \/ ClientReceives
    \/ DelayElapsed
    \/ \E ok \in BOOLEAN : TableRequestStart(ok)
    \/ \E r \in HeaderResults, ok \in BOOLEAN : HeaderInferenceReturns(r, ok)
    \/ HeaderDelayElapsed
    \/ \E r \in SlicePageResults : PageInferenceReturns(r)
    \/ PageDelayElapsed
    \/ \E ok \in BOOLEAN : InterPageDelayElapsed(ok)

SpecTermination == Init /\ [][TerminationNext]_vars /\ WF_vars(TerminationSettles)

(***************************************************************************)
(* Properties                                                              *)
(***************************************************************************)

(* C1: when every group of a run succeeds, the groupInfo records yielded   *)
(* by processGroups number ceil(totalPages/10), carry groupIndex 0,1,2,... *)
(* and ranges that partition 1..totalPages in increasing order without gap *)
(* or overlap, and isLastGroup is true exactly for the last record.        *)
C1_GroupsPartitionPages ==
    runStatus = "done" =>
        LET n == Len(yielded)
        IN /\ n >= 1
           /\ 10 * (n - 1) < totalPages
           /\ totalPages <= 10 * n
           /\ \A i \in 1..n :
                 /\ yielded[i].success
                 /\ yielded[i].groupInfo.groupIndex = i - 1
                 /\ yielded[i].groupInfo.startPage <= yielded[i].groupInfo.endPage
                 /\ yielded[i].groupInfo.totalPages = totalPages
                 /\ yielded[i].groupInfo.isLastGroup = (i = n)
           /\ yielded[1].groupInfo.startPage = 1
           /\ yielded[n].groupInfo.endPage = totalPages
           /\ \A i \in 1..(n - 1) :
                 yielded[i + 1].groupInfo.startPage = yielded[i].groupInfo.endPage + 1

C1_Witness ==
    /\ runStatus = "done"
    /\ totalPages = 21
    /\ Len(yielded) = 3
    /\ yielded[2].groupInfo.startPage = 11
    /\ yielded[2].groupInfo.endPage = 20
    /\ yielded[3].groupInfo.startPage = 21
    /\ yielded[3].groupInfo.endPage = 21

(* C2: for every page p of a document of totalPages pages,                 *)
(* calculateGroupInfo(p, totalPages) is the groupInfo that processGroups   *)
(* builds for the one group whose range contains p.                        *)
C2_InverseConsistency ==
    calc # NoCalc =>
        LET containing == {g \in 0..(TotalGroups(calc.totalPages) - 1) :
                              /\ GroupInfo(g, calc.totalPages).startPage <= calc.pageNumber
                              /\ calc.pageNumber <= GroupInfo(g, calc.totalPages).endPage}
        IN /\ Cardinality(containing) = 1
           /\ \A g \in containing : calc.info = GroupInfo(g, calc.totalPages)

C2_Witness ==
    /\ calc.totalPages = 25
    /\ calc.pageNumber = 21
    /\ calc.info.groupIndex = 2
    /\ calc.info.isLastGroup

(* C3: retryOperation calls the wrapped operation exactly MAX_RETRIES      *)
(* times before it rejects, exactly k times when attempt k is the first to *)
(* succeed, and makes a further call only after a failed attempt.          *)
C3_CallsCounted ==
    /\ invocations <= MAX_RETRIES
    /\ retryResult = "rejected" => invocations = MAX_RETRIES
    /\ retryResult \in {"pending", "resolved"} => invocations = attempt

C3_CallOnlyAfterFailure ==
    invocations' # invocations =>
        \/ invocations' = 1 /\ retryResult' = "pending" /\ pc # "delaying"
        \/ invocations' = invocations + 1 /\ pc = "delaying"
        \/ invocations' = 0 /\ retryResult' = "none" /\ pc = "idle"

C3_RetryBound == []C3_CallsCounted /\ [][C3_CallOnlyAfterFailure]_vars

C3_Witness ==
    /\ retryResult = "rejected"
    /\ invocations = 5
    /\ Len(yielded) = 2
    /\ yielded[1].success

(* C4: in field mode, when group g is the first to exhaust its retries the *)
(* run ends with a success:false record for g, no request was issued for  *)
(* a later group, the accumulated result holds only the pages of groups    *)
(* 0..g-1, and the error shown names group g and its page range.           *)
C4_AbortOnFirstFailedGroup ==
    runStatus = "failed" =>
        LET last == yielded[Len(yielded)]
        IN /\ ~last.success
           /\ last.groupInfo.groupIndex = groupIndex
           /\ Len(yielded) = groupIndex + 1
           /\ lastRequested <= groupIndex
           /\ request = NoRequest
           /\ Len(accumulatedData) = runPageCount
           /\ uiError.group = groupIndex + 1
           /\ uiError.pageRange = <<last.groupInfo.startPage, last.groupInfo.endPage>>

(* C5: the page loop of /extract-table-data ends with exactly one entry    *)
(* for each page 1..pageCount whatever attempts failed; a page whose five  *)
(* attempts all failed has rows = [] and the pages after it are processed. *)
C5_EveryPageOnce ==
    /\ \A i \in 1..Len(extractedData) : extractedData[i].pageNumber = i
    /\ \A p \in exhaustedPages :
          p <= Len(extractedData) /\ extractedData[p].tableData.rows = <<>>
    /\ (op = "table" /\ response.status = 200) =>
          /\ Len(response.pages) = totalPages
          /\ \A i \in 1..totalPages : response.pages[i].pageNumber = i
          /\ \A p \in exhaustedPages : response.pages[p].tableData.rows = <<>>

C5_Witness ==
    /\ op = "table"
    /\ response.status = 200
    /\ totalPages = 2
    /\ exhaustedPages = {1}
    /\ response.pages[1].tableData.rows = <<>>
    /\ response.pages[2].tableData.rows # <<>>

(* C6: when header extraction fails on all 3 attempts the table pipeline   *)
(* goes on to the pages with the default headers instead of aborting.      *)
C6_DefaultHeadersAfterFailures ==
    headerFailures = HEADER_RETRIES =>
        /\ headers = DEFAULT_HEADERS
        /\ response.status # 500

(* C7: within one flow (a group-processing run, or one /extract-table-data *)
(* request) at most one inference request is suspended, a request is issued  *)
(* only when none is suspended, and never for a unit before the latest unit  *)
(* requested, so a unit's first request follows every attempt of the units *)
(* before it.                                                              *)
C7_OneAtATimeInOrder ==
    /\ Cardinality(inferenceInFlight') <= 1
    /\ \A u \in inferenceInFlight' \ inferenceInFlight :
          /\ inferenceInFlight' = {u}
          /\ u >= lastRequested
          /\ u <= lastRequested + 1

C8_SortedAndComplete ==
    /\ \A i \in 1..(Len(accumulatedData) - 1) :
          accumulatedData[i].pageNumber < accumulatedData[i + 1].pageNumber
    /\ Len(accumulatedData) = Cardinality(ingested)
    /\ {accumulatedData[i].pageNumber : i \in 1..Len(accumulatedData)} = ingested

C8_Witness ==
    /\ Cardinality(ingested) >= 4
    /\ Len(lastIngest) = 2
    /\ lastIngest[1].pageNumber > lastIngest[2].pageNumber
    /\ accumulatedData[Len(accumulatedData)].pageNumber > lastIngest[1].pageNumber
    /\ accumulatedData[1].pageNumber < lastIngest[2].pageNumber

(* C9: in every state of a field-mode run accumulatedData.pages is         *)
(* strictly ascending by pageNumber, whatever page numbers the accepted    *)
(* group responses carry.                                                  *)
C9_StrictlyAscending ==
    \A i \in 1..(Len(accumulatedData) - 1) :
        accumulatedData[i].pageNumber < accumulatedData[i + 1].pageNumber

(* C10: accumulatedData.pages is empty when a group-processing run starts, *)
(* until the first group result of that run is ingested.                   *)
C10_EmptyAtRunStart ==
    (runStatus = "running" /\ yielded = <<>>) => accumulatedData = <<>>

(* C11: from the start of a group-processing run until it ends no event    *)
(* the client handles removes an ingested entry: the length of             *)
(* accumulatedData.pages never decreases while the run is in progress.     *)
C11_LengthNonDecreasing ==
    (runStatus = "running" /\ runStatus' = "running") =>
        Len(accumulatedData') >= Len(accumulatedData)

C11_NeverShrinksDuringRun == [][C11_LengthNonDecreasing]_vars

(* C14: a group request whose groupIndex starts at or beyond totalPages     *)
(* fails with the out-of-range error and is fatal: once the client has     *)
(* that error the call has been rejected; the retry wrapper neither waits  *)
(* a backoff nor attempts the request again.                               *)
C14_OutOfRangeNotRetried ==
    lastErrorText = "Failed to extract page group: Group index exceeds total pages" =>
        /\ pc = "idle"
        /\ retryResult = "rejected"

(* C15: a request with missing fields, answered 400 by the server, is      *)
(* surfaced at once: once the client has the 400 answer the call has been  *)
(* rejected, without a backoff wait or a second request.                   *)
C15_InvalidInputNotRetried ==
    lastErrorText = "Invalid input provided" =>
        /\ pc = "idle"
        /\ retryResult = "rejected"

(* C16: the grouping operations reject invalid arguments: processGroups    *)
(* and calculateGroupInfo called with totalPages < 1 fail with an          *)
(* InvalidArgument error instead of producing an empty or malformed plan.  *)
C16_InvalidArgumentRejected ==
    /\ (calc # NoCalc /\ calc.totalPages < 1) => calc.threw
    /\ (plan.called /\ plan.totalPages < 1) => plan.threw

(* C17: merging n > 1 parsable inputs yields one document whose page count *)
(* is the sum of the inputs' page counts and whose pages are the pages of  *)
(* input 1 in order, then those of input 2, and so on; a request with      *)
(* exactly one input is answered with that input unchanged.                *)
C17_MergeConcatenatesInOrder ==
    (op = "merge" /\ operation.valid /\ response # NoResponse) =>
        LET pdfs == operation.pdfs
            RECURSIVE PagesBefore(_)
            PagesBefore(i) == IF i <= 1 THEN 0 ELSE PagesBefore(i - 1) + Len(pdfs[i - 1].pages)
        IN /\ Len(pdfs) = 1 => (response.success /\ response.mergedPDF = pdfs[1])
           /\ (/\ Len(pdfs) > 1
               /\ \A i \in 1..Len(pdfs) : pdfs[i].kind = "pdf"
               /\ response.success) =>
                  /\ response.mergedPDF.kind = "pdf"
                  /\ Len(response.mergedPDF.pages) = PagesBefore(Len(pdfs) + 1)
                  /\ \A i \in 1..Len(pdfs) : \A k \in 1..Len(pdfs[i].pages) :
                        response.mergedPDF.pages[PagesBefore(i) + k] = pdfs[i].pages[k]

C17_Witness ==
    /\ op = "merge"
    /\ operation.pdfs = <<PdfDoc("A", 2), PdfDoc("B", 1)>>
    /\ response.success
    /\ response.mergedPDF.pages = <<<<"A", 1>>, <<"A", 2>>, <<"B", 1>>>>

C19_AcceptedPagesHaveAllFields ==
    (validated.called /\ validated.accepted) =>
        \A i \in 1..Len(validated.result.pages) :
            SelectedFields \subseteq validated.result.pages[i].present

(* C20: every request to /merge-pdfs, /get-page-count, /suggest-fields,    *)
(* /extract-data-group and /extract-table-data receives exactly one        *)
(* response: once a response is out the request is finished, and the       *)
(* response is either the success:true JSON envelope with status 200 or    *)
(* the {success: false, error} JSON envelope with a non-2xx status, never   *)
(* a mixture and never something else.                                     *)
C20_OneEnvelopePerRequest ==
    response # NoResponse =>
        /\ request = NoRequest
        /\ spc = "idle"
        /\ response.body = "json"
        /\ \/ response.success /\ response.status = 200 /\ response.error = ""
           \/ ~response.success /\ response.status \in {400, 500} /\ response.error # ""

(* C12: when getDocument has returned a document for some content and is   *)
(* called again with byte-identical content, with no clearCache in         *)
(* between, the second call returns the same document object and makes no  *)
(* PDFDocument.load (the load count does not move).                        *)
C12_SecondCallIsCached ==
    \A r \in served :
        (/\ r.fn = "getDocument"
         /\ lastCall'.fn = "getDocument"
         /\ lastCall'.base64 = r.base64
         /\ <<lastCall, loadCount, documents>>' # <<lastCall, loadCount, documents>>) =>
            /\ lastCall'.outcome = "returned"
            /\ lastCall'.id = r.id
            /\ ~lastCall'.loaded
            /\ loadCount' = loadCount

C12_CacheIdempotence == [][C12_SecondCallIsCached]_vars

(* C12 witness: getDocument("Aa") has loaded the document (the only load   *)
(* so far) and a second getDocument("Aa") has returned that object without *)
(* loading.                                                                *)
C12_Witness ==
    /\ loadCount = 1
    /\ lastCall.fn = "getDocument"
    /\ lastCall.base64 = <<65, 97>>
    /\ lastCall.outcome = "returned"
    /\ ~lastCall.loaded
    /\ lastCall.id = 1
    /\ [fn |-> "getDocument", base64 |-> <<65, 97>>, groupIndex |-> 0, id |-> 1] \in served

(* C13: getPageGroup(bytes, groupIndex) returns the stored result when the *)
(* key (hash(bytes), groupIndex) is in the group cache; otherwise it        *)
(* computes the slice, stores it under that key and returns it, and a call *)
(* that fails leaves the group cache as it was.  So once a call has         *)
(* succeeded, every later call with the same arguments before a clearCache *)
(* returns the same result object and slices nothing.                      *)
C13_GetPageGroupStep ==
    (lastCall'.fn = "getPageGroup" /\ cacheVars' # cacheVars) =>
        LET key == <<hashString(lastCall'.base64), lastCall'.groupIndex>>
        IN  /\ key \in DOMAIN pageGroups =>
                /\ lastCall'.outcome = "returned"
                /\ lastCall'.id = pageGroups[key].id
                /\ pageGroups' = pageGroups
                /\ sliceCount' = sliceCount
            /\ (key \notin DOMAIN pageGroups /\ lastCall'.outcome = "returned") =>
                /\ sliceCount' = sliceCount + 1
                /\ DOMAIN pageGroups' = DOMAIN pageGroups \cup {key}
                /\ pageGroups'[key].id = lastCall'.id
                /\ pageGroups'[key].startPage = lastCall'.groupIndex * PAGES_PER_GROUP + 1
                /\ \A k \in DOMAIN pageGroups : pageGroups'[k] = pageGroups[k]
            /\ lastCall'.outcome = "throws" =>
                /\ pageGroups' = pageGroups
                /\ sliceCount' = sliceCount
            /\ \A r \in served :
                (/\ r.fn = "getPageGroup"
                 /\ r.base64 = lastCall'.base64
                 /\ r.groupIndex = lastCall'.groupIndex) =>
                    /\ lastCall'.outcome = "returned"
                    /\ lastCall'.id = r.id
                    /\ sliceCount' = sliceCount

C21_OneEntryPerSourcePage ==
    (runStatus = "done" /\ Len(accumulatedData) = runPageCount) =>
        /\ Len(accumulatedData) = totalPages
        /\ \A p \in 1..totalPages :
              \E i \in 1..Len(accumulatedData) : accumulatedData[i].pageNumber = p

(* C22: between two consecutive attempts of a retried operation exactly    *)
(* one backoff delay is awaited (15 s in retryOperation and in the         *)
(* per-page loop, attempt x 3 s in the header loop), and none after a      *)
(* successful attempt or after the last failed attempt: at attempt k the   *)
(* delays awaited so far are k - 1, and an operation that failed on all n  *)
(* attempts has awaited n - 1.                                             *)
C22_OneBackoffBetweenAttempts ==
    LET Flat(n) == [i \in 1..n |-> 15000]
        Linear(n) == [i \in 1..n |-> i * 3000]
    IN  /\ pc = "attempting" => waits = Flat(attempt - 1)
        /\ pc = "delaying" => attempt < 5 /\ waits = Flat(attempt)
        /\ retryResult \in {"resolved", "rejected"} => waits = Flat(attempt - 1)
        /\ retryResult = "rejected" => Len(waits) = 4
        /\ spc = "header" => srvWaits = Linear(headerAttempt - 1)
        /\ spc = "headerDelay" => headerAttempt < 3 /\ srvWaits = Linear(headerAttempt)
        /\ headerFailures = 3 => srvWaits = <<3000, 6000>>
        /\ spc = "page" => srvWaits = Flat(pageAttempt - 1)
        /\ spc = "pageDelay" => pageAttempt < 5 /\ srvWaits = Flat(pageAttempt)
        /\ spc = "interPageDelay" => srvWaits = Flat(pageAttempt - 1)
        /\ (spc = "interPageDelay" /\ pageNum \in exhaustedPages) => Len(srvWaits) = 4

(* C22 witness: a table extraction was rejected after its 5 attempts and 4 *)
(* waits of 15 s, the last request having given up the header detection    *)
(* after waits of 3 s and 6 s.                                             *)
C22_Witness ==
    /\ retryResult = "rejected"
    /\ attempt = 5
    /\ waits = <<15000, 15000, 15000, 15000>>
    /\ headerFailures = 3
    /\ srvWaits = <<3000, 6000>>

(* C23: within one /extract-table-data request getPageGroup is called      *)
(* once for every group index reached so far and never twice for one, the  *)
(* slice used for page p is the one whose startPage..endPage holds p, and  *)
(* a request answered with success has fetched exactly the groups          *)
(* 0..ceil(pageCount/10)-1.                                                *)
C23_OneSlicePerGroup ==
    LET fetched == {sliceFetches[i] : i \in 1..Len(sliceFetches)}
        g == (pageNum - 1) \div 10
    IN  /\ \A i, j \in 1..Len(sliceFetches) : sliceFetches[i] = sliceFetches[j] => i = j
        /\ fetched = IF pageNum = 0 THEN {} ELSE 0..g
        /\ spc \in {"page", "pageDelay", "interPageDelay"} =>
              /\ g \in DOMAIN pageGroupCache
              /\ pageGroupCache[g].startPage <= pageNum
              /\ pageNum <= pageGroupCache[g].endPage
              /\ pageGroupCache[g].totalPages = totalPages
        /\ response.success =>
              /\ Len(sliceFetches) = (totalPages + 9) \div 10
              /\ DOMAIN pageGroupCache = 0..(((totalPages + 9) \div 10) - 1)

(* C23 witness: an 11-page table request was answered with success after   *)
(* fetching group 0 for pages 1..10 and group 1 (pages 11..11) for page 11. *)
C23_Witness ==
    /\ response.success
    /\ totalPages = 11
    /\ Len(response.pages) = 11
    /\ sliceFetches = <<0, 1>>
    /\ pageGroupCache[1].startPage = 11
    /\ pageGroupCache[1].endPage = 11

(* C24: at most one processing flow is active in the client: a handleFiles *)
(* call (it hides the drop zone) or a group-processing run starts only     *)
(* when no flow is suspended at an await.                                  *)
C24_FlowStartsOnlyWhenIdle ==
    /\ (dropZoneShown /\ ~dropZoneShown') => pc = "idle"
    /\ (runStatus # "running" /\ runStatus' = "running") => pc = "idle"

C24_SingleFlow == [][C24_FlowStartsOnlyWhenIdle]_vars


(* C25: for any interleaving of overlapping requests that call getDocument *)
(* or getPageGroup with byte-identical content, the document is parsed at  *)
(* most once per content key between cache clears (no two loads of the     *)
(* same content are under way without a clearCache between their starts),  *)
(* and once no call is suspended every entry of the group cache has the    *)
(* startPage, endPage and isLastGroup of a sequential call for its key.    *)
C25_ParsedOncePerContentKey ==
    /\ \A s, t \in Requests :
          (/\ s # t
           /\ suspended[s].phase = "loading"
           /\ suspended[t].phase = "loading"
           /\ suspended[s].base64 = suspended[t].base64
           /\ ~suspended[s].cleared
           /\ ~suspended[t].cleared) => FALSE
    /\ (\A s \in Requests : suspended[s].phase = "idle") =>
          \A key \in DOMAIN pageGroups :
              LET r == pageGroups[key]
                  first == key[2] * PAGES_PER_GROUP + 1
                  last == IF first + PAGES_PER_GROUP - 1 < r.totalPages
                          THEN first + PAGES_PER_GROUP - 1 ELSE r.totalPages
              IN  /\ r.startPage = first
                  /\ r.endPage = last
                  /\ r.isLastGroup = (last = r.totalPages)
                  /\ \E f \in PdfFiles : hashString(f.base64) = key[1] /\ f.pageCount = r.totalPages


(* C26: for every groupIndex that processGroups sends for a document of    *)
(* totalPages pages, the server finds the group inside the document and    *)
(* the slice getPageGroup cuts for it has the startPage, endPage,          *)
(* totalPages and isLastGroup of the client's groupInfo, which is the      *)
(* range named in the prompt.                                              *)
C26_SliceMatchesGroupInfo ==
    LET document == [id |-> 0, base64 |-> <<>>, pageCount |-> totalPages]
        Matches(info) ==
            LET slice == PageGroupResult(document, info.groupIndex, 0)
            IN  /\ ~GroupIndexExceeds(info.groupIndex, totalPages)
                /\ slice.startPage = info.startPage
                /\ slice.endPage = info.endPage
                /\ slice.totalPages = info.totalPages
                /\ slice.isLastGroup = info.isLastGroup
    IN  /\ (request.endpoint = "group" /\ request.valid) => Matches(request.groupInfo)
        /\ spc = "group" => Matches(srvGroupInfo)

C26_Witness ==
    /\ spc = "group"
    /\ totalPages = 21
    /\ srvGroupInfo.groupIndex = 2
    /\ srvGroupInfo.startPage = 21
    /\ srvGroupInfo.endPage = 21
    /\ srvGroupInfo.isLastGroup


(* C27: when the page-count request and the /extract-table-data request    *)
(* both succeed, extractTableData stops the polling timer, emits the final *)
(* progress event and resolves with the server's data; it rejects only     *)
(* when the page count or the extraction fails after its retries.  So a    *)
(* table extraction whose retryOperation resolved reports no failure.      *)
C27_TableSuccessResolves ==
    (operation.endpoint = "table" /\ retryResult = "resolved") => uiError # TableFailureMessage


(* C28: whenever no client flow is active, every started handleFiles,      *)
(* startFieldExtraction, startTableExtraction and startGroupProcessing     *)
(* call having returned by success, by a failed group or by a thrown       *)
(* error, isProcessing is false and the upload button is enabled.          *)
C28_IdleMeansNotProcessing ==
    pc = "idle" => (~isProcessing /\ ~UploadButtonDisabled)

C28_Witness ==
    /\ pc = "idle"
    /\ runStatus = "failed"
    /\ retryResult = "rejected"
    /\ ~isProcessing
    /\ ~UploadButtonDisabled


(* C29: every flow terminates whatever the inference backend answers: one  *)
(* /extract-table-data request makes at most 3 header inference calls and  *)
(* at most 5 inference calls per page, at most 3 + 5 x pageCount in all,   *)
(* and then sends its response; a field-mode run makes at most 5 requests  *)
(* per group and then ends in Done or Error.                               *)
C29_CallsBounded ==
    LET callsAtMost == IF pageNum = 0 THEN headerAttempt
                       ELSE HEADER_RETRIES + PAGE_RETRIES * (pageNum - 1) + pageAttempt
    IN  /\ headerAttempt <= HEADER_RETRIES
        /\ pageAttempt <= PAGE_RETRIES
        /\ pageNum <= totalPages
        /\ callsAtMost <= HEADER_RETRIES + PAGE_RETRIES * totalPages
        /\ invocations <= MAX_RETRIES
        /\ groupIndex <= TotalGroups(totalPages)

C29_TableRequestAnswered ==
    spc \in {"header", "headerDelay", "page", "pageDelay", "interPageDelay"}
        ~> (spc = "idle" /\ response # NoResponse)

C29_FieldRunEnds == (runStatus = "running") ~> (runStatus \in {"done", "failed"})

C30_SameRetriesForBothKinds ==
    LET FourWaits == <<RETRY_DELAY, RETRY_DELAY, RETRY_DELAY, RETRY_DELAY>>
    IN  /\ \A kind \in {"network", "server"} :
              (retryResult = "rejected" /\ lastErrorKind = kind) =>
                  /\ attempt = MAX_RETRIES
                  /\ invocations = MAX_RETRIES
                  /\ waits = FourWaits
        /\ \A kind \in {"network", "server"} :
              (pc = "delaying" /\ lastErrorKind = kind) =>
                  /\ attempt < MAX_RETRIES
                  /\ Len(waits) = attempt
                  /\ waits[attempt] = RETRY_DELAY
        /\ (/\ retryResult = "rejected"
            /\ operation.endpoint = "group"
            /\ uiError.text = "Failed to process group") =>
              (uiError.cause = "Unable to connect to server") = (lastErrorKind = "network")

C30_Witness ==
    /\ retryResult = "rejected"
    /\ lastErrorKind = "network"
    /\ operation.endpoint = "group"
    /\ uiError.cause = "Unable to connect to server"
    /\ attempt = MAX_RETRIES
    /\ Len(waits) = 4

====
